---- MODULE Spec2Model ----
(***************************************************************************)
(* Deep Freeze: domains, snapshots and the freeze flag.                    *)
(*                                                                         *)
(* The state is the storage under one base path (the live directory of     *)
(* each domain, the snapshots/ directory, snapshots.json, domains.json and *)
(* the .thawed flag file) together with the fields of one                  *)
(* DeepFreezeManager process (its DomainManager, SnapshotManager and       *)
(* git_managers).  One action models one public operation, with every call *)
(* it makes.                                                               *)
(*                                                                         *)
(* A directory tree is a function from paths to entries; a path is a       *)
(* sequence of file names, a file name a sequence of byte values, and the  *)
(* root <<>> is in the domain of the function iff the directory exists.    *)
(* The trees hold regular files and directories only.                      *)
(***************************************************************************)
EXTENDS Integers, Sequences, FiniteSets, TLC

VARIABLES
    live,              \* domain name -> tree at base/domains/<name>
    store,             \* snapshot id -> (domain name -> tree): base/snapshots/<id>/<name>
    snapshots,         \* SnapshotManager.snapshots, in insertion order
    default_snapshot,  \* SnapshotManager.default_snapshot
    config_file,       \* base/snapshots.json
    domains,           \* DomainManager.domains
    domains_file,      \* base/domains.json
    initialized,       \* DeepFreezeManager.initialized
    git_managers,      \* keys of DeepFreezeManager.git_managers
    thawed,            \* base/.thawed exists
    now,               \* the wall clock read by datetime.now()
    mounts,            \* mount point -> the directories of its overlay, and mounted or not
    links,             \* link path -> what is at base/<link path>
    copy_target,       \* the target directory of copy_with_hardlinks
    capturedLive,      \* history: snapshot id -> live trees when it was captured
    last               \* the last operation, its argument and its result

vars == <<live, store, snapshots, default_snapshot, config_file, domains,
          domains_file, initialized, git_managers, thawed, now, mounts,
          links, copy_target, capturedLive, last>>

(***************************************************************************)
(* Bounds                                                                  *)
(***************************************************************************)
\* The clock stops at MaxClock: every application write, every capture and
\* every I/O error happens at a later time than the one before.
MaxClock == 3

SnapshotNames == <<"base", "modified">>
Descriptions == {"Test restore"}

(***************************************************************************)
(* Sequences of bytes, file names and their order                          *)
(***************************************************************************)
Min(a, b) == IF a < b THEN a ELSE b

\* Python's str order on file names, which is the order of their bytes.
LexLess(a, b) ==
    \E i \in 1..(Min(Len(a), Len(b)) + 1) :
        /\ \A j \in 1..(i - 1) : a[j] = b[j]
        /\ \/ i > Len(a) /\ i <= Len(b)
           \/ i <= Len(a) /\ i <= Len(b) /\ a[i] < b[i]

RECURSIVE sorted(_)
sorted(S) ==
    IF S = {} THEN <<>>
    ELSE LET m == CHOOSE x \in S : \A y \in S \ {x} : LexLess(x, y)
         IN  <<m>> \o sorted(S \ {m})

RECURSIVE Concat(_)
Concat(ss) == IF ss = <<>> THEN <<>> ELSE Head(ss) \o Concat(Tail(ss))

(***************************************************************************)
(* Directory trees                                                         *)
(***************************************************************************)
DirEntry == [dir |-> TRUE, bytes |-> <<>>]
FileEntry(b) == [dir |-> FALSE, bytes |-> b]

Absent == [p \in {} |-> DirEntry]
EmptyDir == [p \in {<<>>} |-> DirEntry]

exists(t) == <<>> \in DOMAIN t

IsPrefix(p, q) == Len(p) <= Len(q) /\ SubSeq(q, 1, Len(p)) = p

Children(t, p) == {q[Len(p) + 1] : q \in {r \in DOMAIN t : Len(r) = Len(p) + 1 /\ IsPrefix(p, r)}}

is_dir(t, p) == p \in DOMAIN t /\ t[p].dir
is_file(t, p) == p \in DOMAIN t /\ ~t[p].dir

\* The tree rooted at p, with its paths taken relative to p.
Subtree(t, p) ==
    LET under == {r \in DOMAIN t : IsPrefix(p, r)}
    IN  [q \in {SubSeq(r, Len(p) + 1, Len(r)) : r \in under} |-> t[p \o q]]

\* t with everything at and under p removed.
Without(t, p) == [q \in {r \in DOMAIN t : ~IsPrefix(p, r)} |-> t[q]]

\* t with the tree s placed at p (p's parent exists, p itself does not).
Graft(t, p, s) ==
    [q \in DOMAIN t \cup {p \o r : r \in DOMAIN s} |->
        IF q \in DOMAIN t THEN t[q] ELSE s[SubSeq(q, Len(p) + 1, Len(q))]]

(***************************************************************************)
(* shutil: copy2, copytree, rmtree                                         *)
(***************************************************************************)
\* shutil.copy2 of one regular file: the copy holds the file's bytes.
copy2(t, p) == [q \in {<<>>} |-> FileEntry(t[p].bytes)]

\* A copytree that copies the files of src and none of its directories.
copytree_files_only(src) ==
    [p \in {<<>>} \cup {<<n>> : n \in {m \in Children(src, <<>>) : is_file(src, <<m>>)}} |->
        IF p = <<>> THEN DirEntry ELSE FileEntry(src[p].bytes)]

\* shutil.copytree(src, dst) onto a dst that does not exist: dst is created
\* and every entry of src is copied below it, directories recursively.
RECURSIVE copytree(_)
copytree(src) ==
    LET item(n) == IF is_dir(src, <<n>>) THEN copytree(Subtree(src, <<n>>))
                   ELSE copy2(src, <<n>>)
    IN  [p \in {<<>>} \cup UNION {{<<n>> \o q : q \in DOMAIN item(n)} : n \in Children(src, <<>>)} |->
            IF p = <<>> THEN DirEntry ELSE item(Head(p))[Tail(p)]]

\* A copy loop without its branch for directories.
copy_items_without_dirs(src, items) ==
    [p \in {<<>>} \cup {<<n>> : n \in {m \in items : is_file(src, <<m>>)}} |->
        IF p = <<>> THEN DirEntry ELSE FileEntry(src[p].bytes)]

\* The loop of create_snapshot over domain_path.iterdir(), run for the
\* top-level entries in items: a file by copy2, a directory by copytree,
\* below a directory made by mkdir.
copy_items(src, items) ==
    LET item(n) == IF is_dir(src, <<n>>) THEN copytree(Subtree(src, <<n>>))
                   ELSE copy2(src, <<n>>)
    IN  [p \in {<<>>} \cup UNION {{<<n>> \o q : q \in DOMAIN item(n)} : n \in items} |->
            IF p = <<>> THEN DirEntry ELSE item(Head(p))[Tail(p)]]

\* The entries of a directory in the order of its listing, taken to be the
\* sorted one, and the first k of them.
listing(t) == sorted(Children(t, <<>>))
first_items(t, k) == {listing(t)[i] : i \in 1..k}

\* What an I/O error can leave behind: shutil.copytree that raised has
\* created no target or a target with some of the entries, and
\* shutil.rmtree that raised has removed some of the entries.
copytree_failed(src) ==
    {Absent} \cup {copy_items(src, first_items(src, k)) : k \in 0..(Len(listing(src)) - 1)}

rmtree_failed(t) ==
    {copy_items(t, Children(t, <<>>) \ first_items(t, k)) : k \in 0..Len(listing(t))}

(***************************************************************************)
(* SnapshotManager._calculate_directory_hash                               *)
(***************************************************************************)
\* hashlib.sha256 of a byte stream.  SHA-256 is taken to be collision free:
\* the digest is modelled by the stream that was fed to the hasher.
sha256(stream) == stream

\* The files met by os.walk(path) with dirs.sort() and sorted(files): the
\* files of a directory in order, then its subdirectories in order.
RECURSIVE walk(_, _)
walk(t, root) ==
    LET files == sorted({n \in Children(t, root) : is_file(t, root \o <<n>>)})
        dirs  == sorted({n \in Children(t, root) : is_dir(t, root \o <<n>>)})
    IN  [i \in 1..Len(files) |-> root \o <<files[i]>>]
            \o Concat([i \in 1..Len(dirs) |-> walk(t, root \o <<dirs[i]>>)])

\* A hash over the file names alone.
_calculate_directory_hash_of_names(t) ==
    IF ~exists(t) THEN sha256(<<>>)
    ELSE LET w == walk(t, <<>>)
         IN  sha256(Concat([i \in 1..Len(w) |-> w[i][Len(w[i])]]))

_calculate_directory_hash(t) ==
    IF ~exists(t) THEN sha256(<<>>)
    ELSE LET w == walk(t, <<>>)
         IN  sha256(Concat([i \in 1..Len(w) |-> w[i][Len(w[i])] \o t[w[i]].bytes]))

(***************************************************************************)
(* GitManager: the repository kept inside the cfg domain                   *)
(***************************************************************************)
\* The repository is the directory .git of the work tree.  Its file `index`
\* holds the tree of the head commit and its file `log` the messages of the
\* commits, oldest first.
GitDirName == <<0>>
GitIgnoreName == <<0, 0>>
GitIndexName == <<1>>
GitLogName == <<2>>
GitIgnoreBytes == <<0>>
InitialCommitMessage == <<0>>
NameIndex(name) == CHOOSE i \in 1..Len(SnapshotNames) : SnapshotNames[i] = name
SnapshotMessage(name) == <<1, NameIndex(name)>>

git_index == <<GitDirName, GitIndexName>>
git_log == <<GitDirName, GitLogName>>

\* One tracked file as git stores it: its path and its bytes, each with its length.
git_blob(t, p) ==
    <<Len(p)>> \o Concat([i \in 1..Len(p) |-> <<Len(p[i])>> \o p[i]])
        \o <<Len(t[p].bytes)>> \o t[p].bytes

\* The tree git records for the files in paths (git tracks no directories).
git_tree(t, paths) ==
    LET w == SelectSeq(walk(t, <<>>), LAMBDA p : p \in paths)
    IN  Concat([i \in 1..Len(w) |-> git_blob(t, w[i])])

\* A file name that matches *.tmp, one of the patterns init_repo writes to
\* .gitignore, and the paths git ignores for it.
NameTmp == <<1, 0>>
IgnoredNames == {NameTmp}
ignored(p) == \E i \in 1..Len(p) : p[i] \in IgnoredNames

\* The files `git add -A` stages: every file outside .git that is not ignored.
worktree_files(t) ==
    {p \in DOMAIN t : is_file(t, p) /\ ~IsPrefix(<<GitDirName>>, p) /\ ~ignored(p)}

is_initialized(t) == is_dir(t, <<GitDirName>>)

commit(t, tree, message) ==
    [t EXCEPT ![git_index] = FileEntry(tree),
              ![git_log] = FileEntry(t[git_log].bytes \o message)]

\* GitManager.init_repo on the work tree t.
init_repo(t) ==
    IF is_initialized(t) THEN t
    ELSE LET repo == Graft(t, <<GitDirName>>,
                        [p \in {<<>>, <<GitIndexName>>, <<GitLogName>>} |->
                            IF p = <<>> THEN DirEntry ELSE FileEntry(<<>>)])
             work == IF <<GitIgnoreName>> \in DOMAIN repo THEN repo
                     ELSE Graft(repo, <<GitIgnoreName>>,
                                [p \in {<<>>} |-> FileEntry(GitIgnoreBytes)])
         IN  commit(work, git_tree(work, {<<GitIgnoreName>>}), InitialCommitMessage)

\* A commit_changes that records a commit also when nothing is staged.
commit_changes_always(t, message) ==
    IF ~(is_file(t, git_index) /\ is_file(t, git_log)) THEN t
    ELSE commit(t, git_tree(t, worktree_files(t)), message)

\* GitManager.commit_changes(message, add_all=True) on the work tree t.
commit_changes(t, message) ==
    IF ~(is_file(t, git_index) /\ is_file(t, git_log)) THEN t
    ELSE LET staged == git_tree(t, worktree_files(t))
         IN  IF staged = t[git_index].bytes THEN t
             ELSE commit(t, staged, message)

(***************************************************************************)
(* DomainManager                                                           *)
(***************************************************************************)
DomainTypes == <<"sys", "cfg", "user", "cache">>
DomainNames == {DomainTypes[i] : i \in 1..Len(DomainTypes)}

\* An Enum class is the record of its members; a member has a name and a value.
DomainType ==
    [SYS   |-> [name |-> "SYS",   value |-> "sys"],
     CFG   |-> [name |-> "CFG",   value |-> "cfg"],
     USER  |-> [name |-> "USER",  value |-> "user"],
     CACHE |-> [name |-> "CACHE", value |-> "cache"]]

ResetPolicy ==
    [DISCARD         |-> [name |-> "DISCARD",         value |-> "discard"],
     OPTIONAL_COMMIT |-> [name |-> "OPTIONAL_COMMIT", value |-> "optional"],
     PERSISTENT      |-> [name |-> "PERSISTENT",      value |-> "persistent"],
     ALWAYS_RESET    |-> [name |-> "ALWAYS_RESET",    value |-> "always"]]

\* The call of an Enum class on a value: the member with that value.
member_of(enum, value) == enum[CHOOSE k \in DOMAIN enum : enum[k].value = value]

\* A pathlib.Path is the sequence of its parts; str(path) is the parts with
\* a separator between them, and Path(s) the parts between the separators.
Sep == "/"
BasePath == <<"deepfreeze">>

str(path) ==
    [i \in 1..(2 * Len(path) - 1) |-> IF i % 2 = 1 THEN path[(i + 1) \div 2] ELSE Sep]

Path(s) == SelectSeq(s, LAMBDA c : c # Sep)

\* A table in which the cache domain is persistent.
DEFAULT_DOMAINS_cache_persistent ==
    [sys   |-> [reset_policy |-> ResetPolicy.DISCARD,
                use_git |-> FALSE, use_overlay |-> TRUE],
     cfg   |-> [reset_policy |-> ResetPolicy.OPTIONAL_COMMIT,
                use_git |-> TRUE,  use_overlay |-> TRUE],
     user  |-> [reset_policy |-> ResetPolicy.PERSISTENT,
                use_git |-> FALSE, use_overlay |-> FALSE],
     cache |-> [reset_policy |-> ResetPolicy.PERSISTENT,
                use_git |-> FALSE, use_overlay |-> FALSE]]

\* DEFAULT_DOMAINS, by the value of the domain type.
DEFAULT_DOMAINS ==
    [sys   |-> [reset_policy |-> ResetPolicy.DISCARD,
                use_git |-> FALSE, use_overlay |-> TRUE],
     cfg   |-> [reset_policy |-> ResetPolicy.OPTIONAL_COMMIT,
                use_git |-> TRUE,  use_overlay |-> TRUE],
     user  |-> [reset_policy |-> ResetPolicy.PERSISTENT,
                use_git |-> FALSE, use_overlay |-> FALSE],
     cache |-> [reset_policy |-> ResetPolicy.ALWAYS_RESET,
                use_git |-> FALSE, use_overlay |-> FALSE]]

Domain(name, domain_type, path, reset_policy, use_git, use_overlay) ==
    [name |-> name, domain_type |-> domain_type, path |-> path,
     reset_policy |-> reset_policy, use_git |-> use_git, use_overlay |-> use_overlay]

Domain_to_dict(domain) ==
    [name |-> domain.name,
     domain_type |-> domain.domain_type.value,
     path |-> str(domain.path),
     reset_policy |-> domain.reset_policy.value,
     use_git |-> domain.use_git,
     use_overlay |-> domain.use_overlay]

\* A from_dict that takes the defaults of data.get for the two flags.
Domain_from_dict_defaults(data) ==
    Domain(data.name, member_of(DomainType, data.domain_type), Path(data.path),
           member_of(ResetPolicy, data.reset_policy), FALSE, FALSE)

Domain_from_dict(data) ==
    Domain(data.name, member_of(DomainType, data.domain_type), Path(data.path),
           member_of(ResetPolicy, data.reset_policy), data.use_git, data.use_overlay)

\* The table built by initialize_domains, in the order of DEFAULT_DOMAINS:
\* the domain of each type, named by the value of the type, at
\* base_path/domains/<value>.
initialize_domains ==
    [i \in 1..Len(DomainTypes) |->
        LET value == DomainTypes[i]
        IN  Domain(value, member_of(DomainType, value), BasePath \o <<"domains", value>>,
                   DEFAULT_DOMAINS[value].reset_policy, DEFAULT_DOMAINS[value].use_git,
                   DEFAULT_DOMAINS[value].use_overlay)]

\* The document DomainManager.save_config writes to domains.json, and the
\* table DomainManager.load_config builds from it.
DomainManager_save_config(table) ==
    [exists |-> TRUE, domains |-> [i \in 1..Len(table) |-> Domain_to_dict(table[i])]]

DomainManager_load_config(file) ==
    [i \in 1..Len(file.domains) |-> Domain_from_dict(file.domains[i])]

NoFile == [exists |-> FALSE]

\* A file whose writer stopped after open(path, "w") and before the end of
\* json.dump: it is empty or holds the beginning of a JSON document, and
\* json.load raises json.JSONDecodeError on it.
TruncatedFile == [exists |-> TRUE, truncated |-> TRUE]
is_truncated(file) == file = TruncatedFile

(***************************************************************************)
(* Snapshot and SnapshotManager                                            *)
(***************************************************************************)
None == <<>>

Range(f) == {f[i] : i \in DOMAIN f}

Snapshot(name, snapshot_id, created_at, doms, description) ==
    [name |-> name, snapshot_id |-> snapshot_id, created_at |-> created_at,
     domains |-> doms, description |-> description]

to_dict(snapshot) ==
    [name |-> snapshot.name, snapshot_id |-> snapshot.snapshot_id,
     created_at |-> snapshot.created_at, domains |-> snapshot.domains,
     description |-> snapshot.description]

from_dict(data) ==
    Snapshot(data.name, data.snapshot_id, data.created_at, data.domains, data.description)

\* The keys of the dict snapshot.domains, in insertion order.
keys(doms) == [i \in 1..Len(doms) |-> doms[i].name]

\* snapshot.domains[d]: the hash recorded for the domain d.
recorded_hash(snapshot, d) ==
    snapshot.domains[CHOOSE i \in 1..Len(snapshot.domains) : snapshot.domains[i].name = d].hash

ids(snaps) == {snaps[i].snapshot_id : i \in 1..Len(snaps)}

get_snapshot(snaps, snapshot_id) ==
    IF snapshot_id \in ids(snaps)
    THEN snaps[CHOOSE i \in 1..Len(snaps) : snaps[i].snapshot_id = snapshot_id]
    ELSE None

\* A lookup by name that keeps the last match of the loop.
get_snapshot_by_name_last(snaps, name) ==
    LET named == {i \in 1..Len(snaps) : snaps[i].name = name}
    IN  IF named = {} THEN None
        ELSE snaps[CHOOSE i \in named : \A j \in named : j <= i]

\* SnapshotManager.get_snapshot_by_name: the loop over self.snapshots.values()
\* returns at the first snapshot of that name.
get_snapshot_by_name(snaps, name) ==
    LET named == {i \in 1..Len(snaps) : snaps[i].name = name}
    IN  IF named = {} THEN None
        ELSE snaps[CHOOSE i \in named : \A j \in named : i <= j]

\* self.snapshots[snapshot_id] = snapshot on a dict that keeps insertion order.
put_snapshot(snaps, snapshot) ==
    IF snapshot.snapshot_id \in ids(snaps)
    THEN [i \in 1..Len(snaps) |->
            IF snaps[i].snapshot_id = snapshot.snapshot_id THEN snapshot ELSE snaps[i]]
    ELSE Append(snaps, snapshot)

\* A save_config that leaves the default out of the document.
save_config_without_default(snaps, default) ==
    [exists |-> TRUE,
     snapshots |-> [i \in 1..Len(snaps) |-> to_dict(snaps[i])],
     default_snapshot |-> None]

\* The text json.dump writes to snapshots.json.
save_config(snaps, default) ==
    [exists |-> TRUE,
     snapshots |-> [i \in 1..Len(snaps) |-> to_dict(snaps[i])],
     default_snapshot |-> default]

\* A load_config that takes the default from the file and leaves the
\* snapshots of the manager as they are.
load_config_default_only(file, snaps, default) ==
    IF ~file.exists THEN [snapshots |-> snaps, default_snapshot |-> default]
    ELSE [snapshots |-> snaps, default_snapshot |-> file.default_snapshot]

\* The snapshots and the default that load_config leaves in the manager.
load_config(file, snaps, default) ==
    IF ~file.exists THEN [snapshots |-> snaps, default_snapshot |-> default]
    ELSE [snapshots |-> [i \in 1..Len(file.snapshots) |-> from_dict(file.snapshots[i])],
          default_snapshot |-> file.default_snapshot]

\* datetime.now().isoformat(): the clock advances between any two reads.
timestamp == now + 1

\* hashlib.sha256(f"{name}{timestamp}".encode()).hexdigest()[:16]: the
\* digest is modelled by the pair that was hashed.
new_snapshot_id(name, ts) == <<name, ts>>

\* Copying onto a directory that exists (mkdir exist_ok, dirs_exist_ok):
\* the entries copied replace the entries of the same path.
merge_into(old, new) ==
    [p \in DOMAIN old \cup DOMAIN new |-> IF p \in DOMAIN new THEN new[p] ELSE old[p]]

\* A selection of domains to copy without the check that their path exists.
captured_domains_unchecked(domain_paths) == domain_paths

\* The domains create_snapshot copies: those whose path exists.
captured_domains(domain_paths) == SelectSeq(domain_paths, LAMBDA d : exists(live[d]))

index_of(seq, x) == IF x \in Range(seq) THEN CHOOSE i \in 1..Len(seq) : seq[i] = x ELSE 0

\* A copy loop that makes no directory for a domain with nothing in it.
snapshot_dir_nonempty_only(dir0, domain_paths, fail, partial) ==
    LET todo == SelectSeq(captured_domains(domain_paths),
                          LAMBDA d : Children(live[d], <<>>) # {})
        old(d) == IF d \in DOMAIN dir0 THEN dir0[d] ELSE Absent
    IN  [d \in DOMAIN dir0 \cup Range(todo) |->
            IF d \in Range(todo)
            THEN merge_into(old(d), copy_items(live[d], Children(live[d], <<>>)))
            ELSE old(d)]

\* snapshots/<id> after the copy loop of create_snapshot: the domains before
\* fail are copied in full, an I/O error at fail leaves the entries in partial,
\* and the domains after fail are not reached.  fail = "" is a loop that ends.
snapshot_dir(dir0, domain_paths, fail, partial) ==
    LET todo == captured_domains(domain_paths)
        k == index_of(todo, fail)
        done == IF k = 0 THEN Range(todo) ELSE {todo[i] : i \in 1..(k - 1)}
        old(d) == IF d \in DOMAIN dir0 THEN dir0[d] ELSE Absent
    IN  [d \in DOMAIN dir0 \cup done \cup (IF k = 0 THEN {} ELSE {fail}) |->
            IF d \in done THEN merge_into(old(d), copy_items(live[d], Children(live[d], <<>>)))
            ELSE IF k # 0 /\ d = fail THEN merge_into(old(d), partial)
            ELSE old(d)]

\* domain_hashes of create_snapshot: the hash of each source path.
domain_hashes(domain_paths) ==
    LET todo == captured_domains(domain_paths)
    IN  [i \in 1..Len(todo) |->
            [name |-> todo[i], hash |-> _calculate_directory_hash(live[todo[i]])]]

\* A restore loop that copies the stored tree only onto a target that does
\* not exist, and otherwise only removes the target.
restored_paths_rmtree_or_copytree(snapshot, dir, target_paths, fail, partial) ==
    LET todo == SelectSeq(keys(snapshot.domains),
                          LAMBDA d : d \in target_paths /\ d \in DOMAIN dir)
    IN  [d \in DOMAIN live |->
            IF d \in Range(todo)
            THEN (IF exists(live[d]) THEN Absent ELSE copytree(dir[d]))
            ELSE live[d]]

\* A restore loop over every domain of the snapshot, given a path or not.
restored_paths_of_every_domain(snapshot, dir, target_paths, fail, partial) ==
    LET todo == SelectSeq(keys(snapshot.domains), LAMBDA d : d \in DOMAIN dir)
    IN  [d \in DOMAIN live |-> IF d \in Range(todo) THEN copytree(dir[d]) ELSE live[d]]

\* A restore loop that leaves a target that exists as it is.
restored_paths_copy_missing_only(snapshot, dir, target_paths, fail, partial) ==
    LET todo == SelectSeq(keys(snapshot.domains),
                          LAMBDA d : d \in target_paths /\ d \in DOMAIN dir)
    IN  [d \in DOMAIN live |->
            IF d \in Range(todo) /\ ~exists(live[d]) THEN copytree(dir[d]) ELSE live[d]]

\* A restore loop that copies onto the target without removing it first.
restored_paths_without_rmtree(snapshot, dir, target_paths, fail, partial) ==
    LET todo == SelectSeq(keys(snapshot.domains),
                          LAMBDA d : d \in target_paths /\ d \in DOMAIN dir)
    IN  [d \in DOMAIN live |->
            IF d \in Range(todo) THEN merge_into(live[d], copytree(dir[d])) ELSE live[d]]

\* The live paths after the restore loop of restore_snapshot over
\* snapshot.domains: a domain in target_paths whose stored subtree exists is
\* removed and copied back; the others are skipped.  An I/O error at fail
\* leaves that path as partial and ends the loop.  fail = "" is a loop that ends.
restored_paths(snapshot, dir, target_paths, fail, partial) ==
    LET todo == SelectSeq(keys(snapshot.domains),
                          LAMBDA d : d \in target_paths /\ d \in DOMAIN dir)
        k == index_of(todo, fail)
        done == IF k = 0 THEN Range(todo) ELSE {todo[i] : i \in 1..(k - 1)}
    IN  [d \in DOMAIN live |->
            IF d \in done THEN copytree(dir[d])
            ELSE IF k # 0 /\ d = fail THEN partial
            ELSE live[d]]

\* The domains at which the restore loop can meet an I/O error, and what the
\* error leaves at the target.
restore_failures(snapshot, dir, target_paths) ==
    {f \in Range(keys(snapshot.domains)) : f \in target_paths /\ f \in DOMAIN dir}

restore_partial(dir, f) ==
    IF f \notin DOMAIN dir THEN {}
    ELSE (IF exists(live[f]) THEN rmtree_failed(live[f]) ELSE {}) \cup copytree_failed(dir[f])

(***************************************************************************)
(* FilesystemManager: the overlay of a frozen domain                       *)
(***************************************************************************)
\* The mount points, one for each frozen domain, and the state of one: which
\* of the directories of mount_overlay exist and whether an overlay is
\* mounted at the mount point.
MountPoints == {"sys", "cfg"}

NoOverlay == [lower_dir |-> FALSE, upper_dir |-> FALSE, work_dir |-> FALSE,
              mount_point |-> FALSE, mounted |-> FALSE]

(***************************************************************************)
(* FilesystemManager: junctions and copies by hardlink                     *)
(***************************************************************************)
\* The paths a junction is made at, and what is at one of them: nothing, a
\* directory, or a symlink with the path it points to (a domain's live path).
LinkPaths == {"link", "other"}

NoEntry == [kind |-> "absent"]
DirAt == [kind |-> "dir"]
Symlink(source) == [kind |-> "symlink", to |-> source]

\* The target of copy_with_hardlinks: its tree, and the files of it that are
\* hardlinks of the source file at the same relative path (one inode).
NoTarget == [tree |-> Absent, linked |-> {}]

(***************************************************************************)
(* The state after construction                                            *)
(***************************************************************************)
\* What is known of the last operation: its name, the snapshot id it was
\* about, the target paths it was given, what it returned ("raise" for an
\* exception) with the kind of failure, the domain an I/O error happened at,
\* and the paths it left different from before.
Result(op, id, targets, ret, err, failed, changed) ==
    [op |-> op, id |-> id, targets |-> targets, ret |-> ret, err |-> err,
     failed |-> failed, changed |-> changed]

changed_paths(before, after) == {d \in DOMAIN before : before[d] # after[d]}

Init ==
    /\ live = [d \in DomainNames |-> Absent]
    /\ store = [i \in {} |-> Absent]
    /\ snapshots = <<>>
    /\ default_snapshot = None
    /\ config_file = NoFile
    /\ domains = <<>>
    /\ domains_file = NoFile
    /\ initialized = FALSE
    /\ git_managers = {}
    /\ thawed = FALSE
    /\ now = 0
    /\ mounts = [mount_point \in MountPoints |-> NoOverlay]
    /\ links = [path \in LinkPaths |-> NoEntry]
    /\ copy_target = NoTarget
    /\ capturedLive = [i \in {} |-> Absent]
    /\ last = Result("new", None, {}, "None", "", "", {})

(***************************************************************************)
(* DeepFreezeManager.init and load                                         *)
(***************************************************************************)
get_domain(table, name) ==
    IF \E i \in 1..Len(table) : table[i].name = name
    THEN table[CHOOSE i \in 1..Len(table) : table[i].name = name]
    ELSE None

uses_git(table, name) == \E i \in 1..Len(table) : table[i].name = name /\ table[i].use_git

\* DeepFreezeManager.init; json.load of a truncated snapshots.json raises
\* after the domains are set up and before initialized is set.
init ==
    LET table == initialize_domains
        made == [d \in DomainNames |-> IF exists(live[d]) THEN live[d] ELSE EmptyDir]
        raised == is_truncated(config_file)
        loaded == IF raised
                  THEN [snapshots |-> snapshots, default_snapshot |-> default_snapshot]
                  ELSE load_config(config_file, snapshots, default_snapshot)
    IN  /\ live' = [made EXCEPT !["cfg"] = IF uses_git(table, "cfg") THEN init_repo(@) ELSE @]
        /\ domains' = table
        /\ domains_file' = DomainManager_save_config(table)
        /\ git_managers' = IF uses_git(table, "cfg") THEN git_managers \cup {"cfg"}
                           ELSE git_managers
        /\ snapshots' = loaded.snapshots
        /\ default_snapshot' = loaded.default_snapshot
        /\ initialized' = IF raised THEN initialized ELSE TRUE
        /\ last' = IF raised
                   THEN Result("init", None, {}, "raise", "JSONDecodeError", "",
                               changed_paths(live, live'))
                   ELSE Result("init", None, {}, "True", "", "", changed_paths(live, live'))
        /\ UNCHANGED <<links, copy_target, mounts, store, config_file, thawed, now, capturedLive>>

\* DeepFreezeManager.load; json.load of a truncated domains.json raises
\* before anything is loaded, and that of a truncated snapshots.json after
\* the domains are loaded.
load ==
    IF ~domains_file.exists
    THEN /\ last' = Result("load", None, {}, "False", "", "", {})
         /\ UNCHANGED <<links, copy_target, mounts, live, store, snapshots, default_snapshot, config_file, domains,
                        domains_file, initialized, git_managers, thawed, now,
                        capturedLive>>
    ELSE IF is_truncated(domains_file) \/ is_truncated(config_file)
    THEN /\ domains' = IF is_truncated(domains_file) THEN domains
                    ELSE DomainManager_load_config(domains_file)
         /\ last' = Result("load", None, {}, "raise", "JSONDecodeError", "", {})
         /\ UNCHANGED <<links, copy_target, mounts, live, store, snapshots, default_snapshot, config_file,
                        domains_file, initialized, git_managers, thawed, now,
                        capturedLive>>
    ELSE LET table == DomainManager_load_config(domains_file)
             loaded == load_config(config_file, snapshots, default_snapshot)
         IN  /\ domains' = table
             /\ snapshots' = loaded.snapshots
             /\ default_snapshot' = loaded.default_snapshot
             /\ git_managers' = git_managers \cup
                    {table[i].name : i \in {j \in 1..Len(table) :
                        table[j].use_git /\ is_initialized(live[table[j].name])}}
             /\ initialized' = TRUE
             /\ last' = Result("load", None, {}, "True", "", "", {})
             /\ UNCHANGED <<links, copy_target, mounts, live, store, config_file, domains_file, thawed, now,
                            capturedLive>>

(***************************************************************************)
(* Applications writing below a domain's live path                         *)
(***************************************************************************)
NameA == <<1>>
NameB == <<2>>

\* What the applications do: the files they write (domain, path, bytes), the
\* directories they make and the paths they remove.
AppFiles ==
    {<<"sys", <<NameA>>, <<1>>>>, <<"sys", <<NameA>>, <<2>>>>, <<"sys", <<NameB, NameA>>, <<1>>>>,
     <<"cfg", <<NameA>>, <<1>>>>, <<"user", <<NameA>>, <<1>>>>}
AppDirs == {<<"sys", <<NameB>>>>}
AppRemovals == {<<"sys", <<NameA>>>>, <<"sys", <<NameB>>>>, <<"cfg", <<NameA>>>>}

Parent(p) == SubSeq(p, 1, Len(p) - 1)

\* The proper prefixes of p that are not in t yet.
MissingParents(t, p) == {SubSeq(p, 1, k) : k \in 0..(Len(p) - 1)} \ DOMAIN t

\* An application writes the bytes b to the file p, making its directory first.
write_file(d, p, b) ==
    /\ now < MaxClock
    /\ exists(live[d])
    /\ \A k \in 0..(Len(p) - 1) : ~is_file(live[d], SubSeq(p, 1, k))
    /\ ~is_dir(live[d], p)
    /\ ~(is_file(live[d], p) /\ live[d][p].bytes = b)
    /\ live' = [live EXCEPT ![d] =
                    [q \in DOMAIN live[d] \cup MissingParents(live[d], p) \cup {p} |->
                        IF q = p THEN FileEntry(b)
                        ELSE IF q \in DOMAIN live[d] THEN live[d][q] ELSE DirEntry]]
    /\ now' = now + 1
    /\ last' = Result("write", None, {}, "None", "", "", changed_paths(live, live'))
    /\ UNCHANGED <<links, copy_target, mounts, store, snapshots, default_snapshot, config_file, domains, domains_file,
                   initialized, git_managers, thawed, capturedLive>>

make_dir(d, p) ==
    /\ now < MaxClock
    /\ is_dir(live[d], Parent(p))
    /\ p \notin DOMAIN live[d]
    /\ live' = [live EXCEPT ![d] = Graft(live[d], p, EmptyDir)]
    /\ now' = now + 1
    /\ last' = Result("write", None, {}, "None", "", "", changed_paths(live, live'))
    /\ UNCHANGED <<links, copy_target, mounts, store, snapshots, default_snapshot, config_file, domains, domains_file,
                   initialized, git_managers, thawed, capturedLive>>

remove(d, p) ==
    /\ now < MaxClock
    /\ p \in DOMAIN live[d]
    /\ live' = [live EXCEPT ![d] = Without(live[d], p)]
    /\ now' = now + 1
    /\ last' = Result("write", None, {}, "None", "", "", changed_paths(live, live'))
    /\ UNCHANGED <<links, copy_target, mounts, store, snapshots, default_snapshot, config_file, domains, domains_file,
                   initialized, git_managers, thawed, capturedLive>>

(***************************************************************************)
(* DeepFreezeManager.create_snapshot                                       *)
(***************************************************************************)
\* A selection of every domain of the table.
overlay_domains_all(table) == [i \in 1..Len(table) |-> table[i].name]

\* domain_paths of DeepFreezeManager.create_snapshot: the overlay domains,
\* in the order of the domain table.
overlay_domains(table) ==
    LET frozen == SelectSeq(table, LAMBDA dom : dom.use_overlay)
    IN  [i \in 1..Len(frozen) |-> frozen[i].name]

\* An I/O error of the copy loop: the domain it happens at and the entries
\* copied before it.  A domain with nothing to copy cannot fail.
copy_failures(domain_paths) ==
    {f \in Range(captured_domains(domain_paths)) : Children(live[f], <<>>) # {}}

copy_partial(f) ==
    {copy_items(live[f], first_items(live[f], k)) : k \in 0..(Len(listing(live[f])) - 1)}

\* A create_snapshot that commits the cfg domain first and copies it after.
create_snapshot_commit_first(name, description) ==
    /\ now < MaxClock
    /\ initialized
    /\ LET domain_paths == overlay_domains(domains)
           snapshot_id == new_snapshot_id(name, timestamp)
           dir0 == IF snapshot_id \in DOMAIN store THEN store[snapshot_id]
                   ELSE [d \in {} |-> Absent]
           snapshot == Snapshot(name, snapshot_id, timestamp,
                                domain_hashes(domain_paths), description)
           committed == IF "cfg" \in git_managers
                        THEN commit_changes(live["cfg"], SnapshotMessage(name))
                        ELSE live["cfg"]
           dir == snapshot_dir(dir0, domain_paths, "", Absent)
       IN  /\ store' = [i \in DOMAIN store \cup {snapshot_id} |->
                            IF i = snapshot_id
                            THEN [d \in DOMAIN dir |->
                                    IF d = "cfg"
                                    THEN copy_items(committed, Children(committed, <<>>))
                                    ELSE dir[d]]
                            ELSE store[i]]
           /\ snapshots' = put_snapshot(snapshots, snapshot)
           /\ config_file' = save_config(snapshots', default_snapshot)
           /\ capturedLive' = [i \in DOMAIN capturedLive \cup {snapshot_id} |->
                                    IF i = snapshot_id THEN live ELSE capturedLive[i]]
           /\ live' = [live EXCEPT !["cfg"] = committed]
           /\ last' = Result("create_snapshot", snapshot_id, {}, "Snapshot", "", "", changed_paths(live, live'))
    /\ now' = timestamp
    /\ UNCHANGED <<links, copy_target, mounts, default_snapshot, domains, domains_file,
                   initialized, git_managers, thawed>>

\* SnapshotManager.create_snapshot that runs to its end, followed by the
\* commit of the cfg domain made by DeepFreezeManager.create_snapshot.
create_snapshot(name, description) ==
    /\ now < MaxClock
    /\ initialized
    /\ LET domain_paths == overlay_domains(domains)
           snapshot_id == new_snapshot_id(name, timestamp)
           dir0 == IF snapshot_id \in DOMAIN store THEN store[snapshot_id]
                   ELSE [d \in {} |-> Absent]
           snapshot == Snapshot(name, snapshot_id, timestamp,
                                domain_hashes(domain_paths), description)
           dir == snapshot_dir(dir0, domain_paths, "", Absent)
       IN  /\ store' = [i \in DOMAIN store \cup {snapshot_id} |->
                            IF i = snapshot_id THEN dir ELSE store[i]]
           /\ snapshots' = put_snapshot(snapshots, snapshot)
           /\ config_file' = save_config(snapshots', default_snapshot)
           /\ capturedLive' = [i \in DOMAIN capturedLive \cup {snapshot_id} |->
                                    IF i = snapshot_id THEN live ELSE capturedLive[i]]
           /\ live' = IF "cfg" \in git_managers
                      THEN [live EXCEPT !["cfg"] = commit_changes(@, SnapshotMessage(name))]
                      ELSE live
           /\ last' = Result("create_snapshot", snapshot_id, {}, "Snapshot", "", "", changed_paths(live, live'))
    /\ now' = timestamp
    /\ UNCHANGED <<links, copy_target, mounts, default_snapshot, domains, domains_file, initialized, git_managers,
                   thawed>>

\* create_snapshot called right after a create_snapshot of the same name,
\* its datetime.now() returning the value the clock gave to that call (a
\* clock that has not ticked between the two): the id is made from the name
\* and that value.
create_snapshot_same_clock(name, description) ==
    /\ initialized
    /\ last.op = "create_snapshot"
    /\ last.id = new_snapshot_id(name, now)
    /\ LET domain_paths == overlay_domains(domains)
           snapshot_id == new_snapshot_id(name, now)
           dir0 == IF snapshot_id \in DOMAIN store THEN store[snapshot_id]
                   ELSE [d \in {} |-> Absent]
           snapshot == Snapshot(name, snapshot_id, now,
                                domain_hashes(domain_paths), description)
           dir == snapshot_dir(dir0, domain_paths, "", Absent)
       IN  /\ store' = [i \in DOMAIN store \cup {snapshot_id} |->
                            IF i = snapshot_id THEN dir ELSE store[i]]
           /\ snapshots' = put_snapshot(snapshots, snapshot)
           /\ config_file' = save_config(snapshots', default_snapshot)
           /\ capturedLive' = [i \in DOMAIN capturedLive \cup {snapshot_id} |->
                                    IF i = snapshot_id THEN live ELSE capturedLive[i]]
           /\ live' = IF "cfg" \in git_managers
                      THEN [live EXCEPT !["cfg"] = commit_changes(@, SnapshotMessage(name))]
                      ELSE live
           /\ last' = Result("create_snapshot", snapshot_id, {}, "Snapshot", "", "",
                             changed_paths(live, live'))
    /\ UNCHANGED <<links, copy_target, mounts, default_snapshot, domains, domains_file, initialized, git_managers,
                   thawed, now>>

\* How the commit made by commit_changes can fail: `git add -A` exits with
\* an error (GitCommandError, which commit_changes catches to return False),
\* or repo.index.commit raises while it runs the pre-commit hook
\* (HookExecutionError) or writes the commit (OSError), which it does not catch.
CommitErrors == {"GitCommandError", "HookExecutionError", "OSError"}

\* DeepFreezeManager.create_snapshot whose SnapshotManager.create_snapshot
\* runs to its end and whose commit of the cfg domain fails with error:
\* no commit is made; an error that commit_changes does not catch leaves
\* DeepFreezeManager.create_snapshot as an exception.
create_snapshot_commit_failed(name, description, error) ==
    /\ now < MaxClock
    /\ initialized
    /\ "cfg" \in git_managers
    /\ is_initialized(live["cfg"])
    /\ error \in CommitErrors
    /\ error # "GitCommandError" =>
           git_tree(live["cfg"], worktree_files(live["cfg"])) # live["cfg"][git_index].bytes
    /\ LET domain_paths == overlay_domains(domains)
           snapshot_id == new_snapshot_id(name, timestamp)
           dir0 == IF snapshot_id \in DOMAIN store THEN store[snapshot_id]
                   ELSE [d \in {} |-> Absent]
           snapshot == Snapshot(name, snapshot_id, timestamp,
                                domain_hashes(domain_paths), description)
           dir == snapshot_dir(dir0, domain_paths, "", Absent)
       IN  /\ store' = [i \in DOMAIN store \cup {snapshot_id} |->
                            IF i = snapshot_id THEN dir ELSE store[i]]
           /\ snapshots' = put_snapshot(snapshots, snapshot)
           /\ config_file' = save_config(snapshots', default_snapshot)
           /\ capturedLive' = [i \in DOMAIN capturedLive \cup {snapshot_id} |->
                                    IF i = snapshot_id THEN live ELSE capturedLive[i]]
           /\ last' = Result("create_snapshot", snapshot_id, {},
                             IF error = "GitCommandError" THEN "Snapshot" ELSE "raise",
                             error, "cfg", {})
    /\ now' = timestamp
    /\ UNCHANGED <<links, copy_target, mounts, live, default_snapshot, domains, domains_file, initialized,
                   git_managers, thawed>>

\* A create_snapshot that puts the snapshot in the index before it copies.
create_snapshot_failed_after_register(name, description, fail, partial) ==
    /\ now < MaxClock
    /\ initialized
    /\ LET domain_paths == overlay_domains(domains)
           snapshot_id == new_snapshot_id(name, timestamp)
           dir0 == IF snapshot_id \in DOMAIN store THEN store[snapshot_id]
                   ELSE [d \in {} |-> Absent]
       IN  /\ fail \in copy_failures(domain_paths)
           /\ partial \in copy_partial(fail)
           /\ snapshots' = put_snapshot(snapshots,
                                Snapshot(name, snapshot_id, timestamp, <<>>, description))
           /\ config_file' = save_config(snapshots', default_snapshot)
           /\ store' = [i \in DOMAIN store \cup {snapshot_id} |->
                            IF i = snapshot_id
                            THEN snapshot_dir(dir0, domain_paths, fail, partial)
                            ELSE store[i]]
           /\ last' = Result("create_snapshot", snapshot_id, {}, "raise", "OSError", fail, {})
    /\ now' = timestamp
    /\ UNCHANGED <<links, copy_target, mounts, live, default_snapshot, domains, domains_file, initialized,
                   git_managers, thawed, capturedLive>>

\* SnapshotManager.create_snapshot that meets an I/O error while copying the
\* domain fail: the exception leaves create_snapshot before the snapshot is
\* put in the index.
create_snapshot_failed(name, description, fail, partial) ==
    /\ now < MaxClock
    /\ initialized
    /\ LET domain_paths == overlay_domains(domains)
           snapshot_id == new_snapshot_id(name, timestamp)
           dir0 == IF snapshot_id \in DOMAIN store THEN store[snapshot_id]
                   ELSE [d \in {} |-> Absent]
       IN  /\ fail \in copy_failures(domain_paths)
           /\ partial \in copy_partial(fail)
           /\ store' = [i \in DOMAIN store \cup {snapshot_id} |->
                            IF i = snapshot_id
                            THEN snapshot_dir(dir0, domain_paths, fail, partial)
                            ELSE store[i]]
           /\ last' = Result("create_snapshot", snapshot_id, {}, "raise", "OSError", fail, {})
    /\ now' = timestamp
    /\ UNCHANGED <<links, copy_target, mounts, live, snapshots, default_snapshot, config_file, domains, domains_file,
                   initialized, git_managers, thawed, capturedLive>>

\* A create_snapshot without the check of self.initialized: it captures
\* the domains of the empty domain table.
create_snapshot_without_init_check(name, description) ==
    /\ ~initialized
    /\ now < MaxClock
    /\ LET snapshot_id == new_snapshot_id(name, timestamp)
           snapshot == Snapshot(name, snapshot_id, timestamp, <<>>, description)
       IN  /\ store' = [i \in DOMAIN store \cup {snapshot_id} |->
                            IF i = snapshot_id THEN [d \in {} |-> Absent] ELSE store[i]]
           /\ snapshots' = put_snapshot(snapshots, snapshot)
           /\ config_file' = save_config(snapshots', default_snapshot)
           /\ last' = Result("create_snapshot", snapshot_id, {}, "Snapshot", "", "", {})
    /\ now' = timestamp
    /\ UNCHANGED <<links, copy_target, mounts, live, default_snapshot, domains, domains_file, initialized,
                   git_managers, thawed, capturedLive>>

\* DeepFreezeManager.create_snapshot on a manager that is not initialized.
create_snapshot_uninitialized(name, description) ==
    /\ ~initialized
    /\ last' = Result("create_snapshot", None, {}, "None", "", "", {})
    /\ UNCHANGED <<links, copy_target, mounts, live, store, snapshots, default_snapshot, config_file, domains,
                   domains_file, initialized, git_managers, thawed, now,
                   capturedLive>>

(***************************************************************************)
(* SnapshotManager.create_snapshot called by itself                        *)
(***************************************************************************)
\* The domain_paths given to SnapshotManager.create_snapshot.
DomainPathSets == {<<"sys", "cfg">>, <<"sys", "user">>}

\* A create_snapshot that moves the entries of a domain path into the
\* snapshot instead of copying them.
SnapshotManager_create_snapshot_moving(name, domain_paths, description) ==
    /\ now < MaxClock
    /\ LET snapshot_id == new_snapshot_id(name, timestamp)
           dir0 == IF snapshot_id \in DOMAIN store THEN store[snapshot_id]
                   ELSE [d \in {} |-> Absent]
           snapshot == Snapshot(name, snapshot_id, timestamp,
                                domain_hashes(domain_paths), description)
           dir == snapshot_dir(dir0, domain_paths, "", Absent)
       IN  /\ store' = [i \in DOMAIN store \cup {snapshot_id} |->
                            IF i = snapshot_id THEN dir ELSE store[i]]
           /\ snapshots' = put_snapshot(snapshots, snapshot)
           /\ config_file' = save_config(snapshots', default_snapshot)
           /\ capturedLive' = [i \in DOMAIN capturedLive \cup {snapshot_id} |->
                                    IF i = snapshot_id THEN live ELSE capturedLive[i]]
           /\ live' = [d \in DOMAIN live |->
                          IF d \in Range(captured_domains(domain_paths)) THEN EmptyDir
                          ELSE live[d]]
           /\ last' = Result("SnapshotManager.create_snapshot", snapshot_id, {},
                             "Snapshot", "", "", changed_paths(live, live'))
    /\ now' = timestamp
    /\ UNCHANGED <<links, copy_target, mounts, default_snapshot, domains, domains_file, initialized, git_managers,
                   thawed>>

\* SnapshotManager.create_snapshot(name, domain_paths, description) that runs
\* to its end, with no commit after it.
SnapshotManager_create_snapshot(name, domain_paths, description) ==
    /\ now < MaxClock
    /\ LET snapshot_id == new_snapshot_id(name, timestamp)
           dir0 == IF snapshot_id \in DOMAIN store THEN store[snapshot_id]
                   ELSE [d \in {} |-> Absent]
           snapshot == Snapshot(name, snapshot_id, timestamp,
                                domain_hashes(domain_paths), description)
           dir == snapshot_dir(dir0, domain_paths, "", Absent)
       IN  /\ store' = [i \in DOMAIN store \cup {snapshot_id} |->
                            IF i = snapshot_id THEN dir ELSE store[i]]
           /\ snapshots' = put_snapshot(snapshots, snapshot)
           /\ config_file' = save_config(snapshots', default_snapshot)
           /\ capturedLive' = [i \in DOMAIN capturedLive \cup {snapshot_id} |->
                                    IF i = snapshot_id THEN live ELSE capturedLive[i]]
           /\ last' = Result("SnapshotManager.create_snapshot", snapshot_id, {},
                             "Snapshot", "", "", {})
    /\ now' = timestamp
    /\ UNCHANGED <<links, copy_target, mounts, live, default_snapshot, domains, domains_file, initialized,
                   git_managers, thawed>>

\* SnapshotManager.create_snapshot that meets an I/O error while copying the
\* domain fail.
SnapshotManager_create_snapshot_failed(name, domain_paths, description, fail, partial) ==
    /\ now < MaxClock
    /\ LET snapshot_id == new_snapshot_id(name, timestamp)
           dir0 == IF snapshot_id \in DOMAIN store THEN store[snapshot_id]
                   ELSE [d \in {} |-> Absent]
       IN  /\ fail \in copy_failures(domain_paths)
           /\ partial \in copy_partial(fail)
           /\ store' = [i \in DOMAIN store \cup {snapshot_id} |->
                            IF i = snapshot_id
                            THEN snapshot_dir(dir0, domain_paths, fail, partial)
                            ELSE store[i]]
           /\ last' = Result("SnapshotManager.create_snapshot", snapshot_id, {},
                             "raise", "OSError", fail, {})
    /\ now' = timestamp
    /\ UNCHANGED <<links, copy_target, mounts, live, snapshots, default_snapshot, config_file, domains, domains_file,
                   initialized, git_managers, thawed, capturedLive>>

(***************************************************************************)
(* SnapshotManager.get_snapshot_by_name                                    *)
(***************************************************************************)
\* One call of get_snapshot_by_name(name): the caller gets a snapshot, whose
\* id is recorded, or None.
SnapshotManager_get_snapshot_by_name(name) ==
    /\ LET found == get_snapshot_by_name(snapshots, name)
       IN  last' = IF found = None
                   THEN Result("get_snapshot_by_name", None, {name}, "None", "", "", {})
                   ELSE Result("get_snapshot_by_name", found.snapshot_id, {name},
                               "Snapshot", "", "", {})
    /\ UNCHANGED <<links, copy_target, mounts, live, store, snapshots, default_snapshot, config_file, domains,
                   domains_file, initialized, git_managers, thawed, now, capturedLive>>

(***************************************************************************)
(* SnapshotManager.set_default_snapshot                                    *)
(***************************************************************************)
UnknownId == <<"nonexistent", 0>>

\* A set_default_snapshot that does not look the id up.
set_default_snapshot_unchecked(snapshot_id) ==
    /\ default_snapshot' = snapshot_id
    /\ config_file' = save_config(snapshots, default_snapshot')
    /\ last' = Result("set_default_snapshot", snapshot_id, {}, "True", "", "", {})
    /\ UNCHANGED <<links, copy_target, mounts, live, store, snapshots, domains, domains_file, initialized,
                   git_managers, thawed, now, capturedLive>>

set_default_snapshot(snapshot_id) ==
    IF snapshot_id \notin ids(snapshots)
    THEN /\ last' = Result("set_default_snapshot", snapshot_id, {}, "False", "", "", {})
         /\ UNCHANGED <<links, copy_target, mounts, live, store, snapshots, default_snapshot, config_file, domains,
                        domains_file, initialized, git_managers, thawed, now,
                        capturedLive>>
    ELSE /\ default_snapshot' = snapshot_id
         /\ config_file' = save_config(snapshots, default_snapshot')
         /\ last' = Result("set_default_snapshot", snapshot_id, {}, "True", "", "", {})
         /\ UNCHANGED <<links, copy_target, mounts, live, store, snapshots, domains, domains_file, initialized,
                        git_managers, thawed, now, capturedLive>>

(***************************************************************************)
(* DeepFreezeManager.thaw, freeze, is_thawed                               *)
(***************************************************************************)
thaw ==
    /\ thawed' = TRUE
    /\ last' = Result("thaw", None, {}, "True", "", "", {})
    /\ UNCHANGED <<links, copy_target, mounts, live, store, snapshots, default_snapshot, config_file, domains,
                   domains_file, initialized, git_managers, now, capturedLive>>

\* A freeze that leaves the flag file as it is.
freeze_without_unlink ==
    /\ last' = Result("freeze", None, {}, "True", "", "", {})
    /\ UNCHANGED <<links, copy_target, mounts, live, store, snapshots, default_snapshot, config_file, domains,
                   domains_file, initialized, git_managers, thawed, now, capturedLive>>

freeze ==
    /\ thawed' = FALSE
    /\ last' = Result("freeze", None, {}, "True", "", "", {})
    /\ UNCHANGED <<links, copy_target, mounts, live, store, snapshots, default_snapshot, config_file, domains,
                   domains_file, initialized, git_managers, now, capturedLive>>

\* An is_thawed that looks for the flag file where it is not.
is_thawed_wrong_file == FALSE

is_thawed == thawed

(***************************************************************************)
(* SnapshotManager.restore_snapshot                                        *)
(***************************************************************************)
\* A restore_snapshot without the check that snapshots/<id> exists.
restore_without_dir_check(op, snapshot_id, target_paths) ==
    IF snapshot_id \notin ids(snapshots)
    THEN /\ live' = live
         /\ last' = Result(op, snapshot_id, target_paths, "False", "NotFound", "", {})
    ELSE /\ live' = IF snapshot_id \notin DOMAIN store THEN live
                    ELSE restored_paths(get_snapshot(snapshots, snapshot_id),
                                        store[snapshot_id], target_paths, "", Absent)
         /\ last' = Result(op, snapshot_id, target_paths, "True", "", "",
                           changed_paths(live, live'))

\* The body of SnapshotManager.restore_snapshot(snapshot_id, target_paths),
\* called by the operation op and meeting no I/O error: what it does to the
\* live paths and what the caller gets.
restore(op, snapshot_id, target_paths) ==
    IF snapshot_id \notin ids(snapshots) \/ snapshot_id \notin DOMAIN store
    THEN /\ live' = live
         /\ last' = Result(op, snapshot_id, target_paths, "False", "NotFound", "", {})
    ELSE /\ live' = restored_paths(get_snapshot(snapshots, snapshot_id), store[snapshot_id],
                                   target_paths, "", Absent)
         /\ last' = Result(op, snapshot_id, target_paths, "True", "", "", changed_paths(live, live'))

TargetSets == {{"sys", "cfg"}, {"cfg", "user"}}
AllTargets == UNION TargetSets

restore_snapshot(snapshot_id, target_paths) ==
    /\ restore("restore_snapshot", snapshot_id, target_paths)
    /\ UNCHANGED <<links, copy_target, mounts, store, snapshots, default_snapshot, config_file, domains, domains_file,
                   initialized, git_managers, thawed, now, capturedLive>>

\* restore_snapshot called again right after a restore_snapshot of the same
\* snapshot onto the same target paths that returned True.
restore_snapshot_again(snapshot_id, target_paths) ==
    /\ last.op \in {"restore_snapshot", "restore_snapshot_again"}
    /\ last.ret = "True"
    /\ last.id = snapshot_id
    /\ last.targets = target_paths
    /\ restore("restore_snapshot_again", snapshot_id, target_paths)
    /\ UNCHANGED <<links, copy_target, mounts, store, snapshots, default_snapshot, config_file, domains, domains_file,
                   initialized, git_managers, thawed, now, capturedLive>>

\* SnapshotManager.restore_snapshot that meets an I/O error (shutil.rmtree or
\* shutil.copytree raises) at the domain fail: the exception leaves
\* restore_snapshot, and the domains after fail are not reached.
restore_snapshot_failed(snapshot_id, target_paths, fail, partial) ==
    /\ snapshot_id \in ids(snapshots)
    /\ snapshot_id \in DOMAIN store
    /\ fail \in restore_failures(get_snapshot(snapshots, snapshot_id), store[snapshot_id],
                                 target_paths)
    /\ partial \in restore_partial(store[snapshot_id], fail)
    /\ live' = restored_paths(get_snapshot(snapshots, snapshot_id), store[snapshot_id],
                              target_paths, fail, partial)
    /\ last' = Result("restore_snapshot", snapshot_id, target_paths, "raise", "OSError", fail, changed_paths(live, live'))
    /\ now < MaxClock
    /\ now' = now + 1
    /\ UNCHANGED <<links, copy_target, mounts, store, snapshots, default_snapshot, config_file, domains, domains_file,
                   initialized, git_managers, thawed, capturedLive>>

(***************************************************************************)
(* _calculate_directory_hash applied to a domain path                      *)
(***************************************************************************)
\* One computation of the hash of the live path of the domain d; the digest
\* is what the caller gets.
calculate_directory_hash(d) ==
    /\ last' = Result("_calculate_directory_hash", None, {d},
                      _calculate_directory_hash(live[d]), "", "", {})
    /\ UNCHANGED <<links, copy_target, mounts, live, store, snapshots, default_snapshot, config_file, domains,
                   domains_file, initialized, git_managers, thawed, now, capturedLive>>

(***************************************************************************)
(* DeepFreezeManager.restore_snapshot and the restore on boot              *)
(***************************************************************************)
\* restoreSnapshot(id | useDefault): valid only once initialized; resolves
\* the snapshot, NoDefaultSet when the default is asked for and none is set;
\* then SnapshotManager.restore_snapshot onto the overlay domains' paths.
DeepFreezeManager_restore_snapshot(op, snapshot_id, use_default) ==
    /\ IF ~initialized
       THEN /\ live' = live
            /\ last' = Result(op, snapshot_id, {}, "False", "NotInitialized", "", {})
       ELSE IF use_default /\ default_snapshot = None
       THEN /\ live' = live
            /\ last' = Result(op, None, {}, "False", "NoDefaultSet", "", {})
       ELSE restore(op, IF use_default THEN default_snapshot ELSE snapshot_id,
                    Range(overlay_domains(domains)))
    /\ UNCHANGED <<links, copy_target, mounts, store, snapshots, default_snapshot, config_file, domains, domains_file,
                   initialized, git_managers, thawed, now, capturedLive>>

\* bootRestore(): frozen with a default set restores the default; thawed
\* skips the restore.
bootRestore ==
    IF is_thawed \/ default_snapshot = None
    THEN /\ last' = Result("bootRestore", None, {}, "Skipped", "", "", {})
         /\ UNCHANGED <<links, copy_target, mounts, live, store, snapshots, default_snapshot, config_file, domains,
                        domains_file, initialized, git_managers, thawed, now,
                        capturedLive>>
    ELSE DeepFreezeManager_restore_snapshot("bootRestore", None, TRUE)

(***************************************************************************)
(* A new process, and a process that ends in the middle of a write         *)
(***************************************************************************)
\* A new manager that starts frozen whatever the flag file said.
restart_frozen ==
    /\ snapshots' = <<>>
    /\ default_snapshot' = None
    /\ domains' = <<>>
    /\ initialized' = FALSE
    /\ git_managers' = {}
    /\ thawed' = FALSE
    /\ last' = Result("new", None, {}, "None", "", "", {})
    /\ UNCHANGED <<links, copy_target, mounts, live, store, config_file, domains_file, now, capturedLive>>

\* DeepFreezeManager.__init__ in a new process on the same base path: the
\* files stay, the fields are those of a new manager.
restart ==
    /\ snapshots' = <<>>
    /\ default_snapshot' = None
    /\ domains' = <<>>
    /\ initialized' = FALSE
    /\ git_managers' = {}
    /\ last' = Result("new", None, {}, "None", "", "", {})
    /\ UNCHANGED <<links, copy_target, mounts, live, store, config_file, domains_file, thawed, now, capturedLive>>

\* What a file can hold when the process ends during open(path, "w") and
\* json.dump of new over old: old before the open, new after the last
\* byte, a truncated file in between.
crashed_write(old, new) == {old, TruncatedFile, new}

\* set_default_snapshot of an id in the index, the process ending in its
\* save_config.
set_default_snapshot_crashed(snapshot_id, file) ==
    /\ snapshot_id \in ids(snapshots)
    /\ file \in crashed_write(config_file, save_config(snapshots, snapshot_id))
    /\ config_file' = file
    /\ snapshots' = <<>>
    /\ default_snapshot' = None
    /\ domains' = <<>>
    /\ initialized' = FALSE
    /\ git_managers' = {}
    /\ last' = Result("crash", snapshot_id, {}, "None", "set_default_snapshot", "", {})
    /\ UNCHANGED <<links, copy_target, mounts, live, store, domains_file, thawed, now, capturedLive>>

\* init, the process ending in the save_config of its DomainManager, after
\* the domain directories are made.
init_crashed(file) ==
    /\ file \in crashed_write(domains_file,
                              DomainManager_save_config(initialize_domains))
    /\ domains_file' = file
    /\ live' = [d \in DomainNames |-> IF exists(live[d]) THEN live[d] ELSE EmptyDir]
    /\ snapshots' = <<>>
    /\ default_snapshot' = None
    /\ domains' = <<>>
    /\ initialized' = FALSE
    /\ git_managers' = {}
    /\ last' = Result("crash", None, {}, "None", "init", "", changed_paths(live, live'))
    /\ UNCHANGED <<links, copy_target, mounts, store, config_file, thawed, now, capturedLive>>

(***************************************************************************)
(* A second manager on the same base path                                  *)
(***************************************************************************)
\* The command `snapshot create` run in another process: a new
\* DeepFreezeManager on the same base path loads the records from disk and
\* calls create_snapshot.  The fields of the first manager stay as they are.
snapshot_create(name, description) ==
    /\ now < MaxClock
    /\ domains_file.exists
    /\ ~is_truncated(domains_file)
    /\ ~is_truncated(config_file)
    /\ LET table == DomainManager_load_config(domains_file)
           loaded == load_config(config_file, <<>>, None)
           managed == uses_git(table, "cfg") /\ is_initialized(live["cfg"])
           domain_paths == overlay_domains(table)
           snapshot_id == new_snapshot_id(name, timestamp)
           dir0 == IF snapshot_id \in DOMAIN store THEN store[snapshot_id]
                   ELSE [d \in {} |-> Absent]
           snapshot == Snapshot(name, snapshot_id, timestamp,
                                domain_hashes(domain_paths), description)
           dir == snapshot_dir(dir0, domain_paths, "", Absent)
       IN  /\ store' = [i \in DOMAIN store \cup {snapshot_id} |->
                            IF i = snapshot_id THEN dir ELSE store[i]]
           /\ config_file' = save_config(put_snapshot(loaded.snapshots, snapshot),
                                         loaded.default_snapshot)
           /\ capturedLive' = [i \in DOMAIN capturedLive \cup {snapshot_id} |->
                                    IF i = snapshot_id THEN live ELSE capturedLive[i]]
           /\ live' = IF managed
                      THEN [live EXCEPT !["cfg"] = commit_changes(@, SnapshotMessage(name))]
                      ELSE live
           /\ last' = Result("snapshot_create", snapshot_id, {}, "Snapshot", "", "",
                             changed_paths(live, live'))
    /\ now' = timestamp
    /\ UNCHANGED <<links, copy_target, mounts, snapshots, default_snapshot, domains, domains_file, initialized,
                   git_managers, thawed>>

\* The command `init` run in another process: a new DeepFreezeManager on
\* the same base path reports that domains.json exists and returns, or calls
\* init.  The fields of the first manager stay as they are.
cli_init ==
    IF domains_file.exists
    THEN /\ last' = Result("cli_init", None, {}, "AlreadyInitialized", "", "", {})
         /\ UNCHANGED <<links, copy_target, mounts, live, store, snapshots, default_snapshot, config_file, domains,
                        domains_file, initialized, git_managers, thawed, now,
                        capturedLive>>
    ELSE LET table == initialize_domains
             made == [d \in DomainNames |-> IF exists(live[d]) THEN live[d] ELSE EmptyDir]
         IN  /\ live' = [made EXCEPT !["cfg"] =
                            IF uses_git(table, "cfg") THEN init_repo(@) ELSE @]
             /\ domains_file' = DomainManager_save_config(table)
             /\ last' = IF is_truncated(config_file)
                        THEN Result("cli_init", None, {}, "raise", "JSONDecodeError", "",
                                    changed_paths(live, live'))
                        ELSE Result("cli_init", None, {}, "True", "", "",
                                    changed_paths(live, live'))
             /\ UNCHANGED <<links, copy_target, mounts, store, snapshots, default_snapshot, config_file, domains,
                            initialized, git_managers, thawed, now, capturedLive>>

(***************************************************************************)
(* FilesystemManager.mount_overlay and unmount_overlay                     *)
(***************************************************************************)
\* FilesystemManager.mount_overlay(lower_dir, upper_dir, work_dir,
\* mount_point): supported is what supports_overlayfs returns on the host
\* and ok whether the mount command exits with 0, which it does not while an
\* overlay is mounted at the mount point already.
mount_overlay(mount_point, supported, ok) ==
    /\ ok => (supported /\ ~mounts[mount_point].mounted)
    /\ mounts' = IF ~supported THEN mounts
                 ELSE [mounts EXCEPT ![mount_point] =
                          [lower_dir |-> TRUE, upper_dir |-> TRUE, work_dir |-> TRUE,
                           mount_point |-> TRUE, mounted |-> @.mounted \/ ok]]
    /\ last' = Result("mount_overlay", None, {mount_point},
                      IF ok THEN "True" ELSE "False", "", "", {})
    /\ UNCHANGED <<links, copy_target, live, store, snapshots, default_snapshot, config_file, domains,
                   domains_file, initialized, git_managers, thawed, now, capturedLive>>

\* FilesystemManager.unmount_overlay(mount_point): True at once when the
\* mount point does not exist; otherwise the result of the umount command,
\* which exits with 0 when it has unmounted what was mounted there (ok) and
\* with an error when nothing is mounted there or the unmount is refused.
unmount_overlay(mount_point, ok) ==
    /\ ok => mounts[mount_point].mounted
    /\ IF ~mounts[mount_point].mount_point
       THEN /\ ~ok
            /\ mounts' = mounts
            /\ last' = Result("unmount_overlay", None, {mount_point}, "True", "", "", {})
       ELSE /\ mounts' = [mounts EXCEPT ![mount_point].mounted = @ /\ ~ok]
            /\ last' = Result("unmount_overlay", None, {mount_point},
                              IF ok THEN "True" ELSE "False", "", "", {})
    /\ UNCHANGED <<links, copy_target, live, store, snapshots, default_snapshot, config_file, domains,
                   domains_file, initialized, git_managers, thawed, now, capturedLive>>

\* FilesystemManager.is_mount_point(path) on Linux: False when the path does
\* not exist, otherwise what the mountpoint command finds.
is_mount_point(mount_point) ==
    /\ last' = Result("is_mount_point", None, {mount_point},
                      IF mounts[mount_point].mount_point /\ mounts[mount_point].mounted
                      THEN "True" ELSE "False", "", "", {})
    /\ UNCHANGED <<links, copy_target, mounts, live, store, snapshots, default_snapshot, config_file, domains,
                   domains_file, initialized, git_managers, thawed, now, capturedLive>>

\* The directory of a mount point with nothing mounted on it is removed,
\* from outside the program.
remove_mount_point(mount_point) ==
    /\ mounts[mount_point].mount_point
    /\ ~mounts[mount_point].mounted
    /\ mounts' = [mounts EXCEPT ![mount_point].mount_point = FALSE]
    /\ last' = Result("rmdir", None, {mount_point}, "None", "", "", {})
    /\ UNCHANGED <<links, copy_target, live, store, snapshots, default_snapshot, config_file, domains,
                   domains_file, initialized, git_managers, thawed, now, capturedLive>>

(***************************************************************************)
(* FilesystemManager.create_junction and remove_junction (not Windows)     *)
(***************************************************************************)
JunctionSources == {"sys", "user"}

\* Path.exists() of a link path follows a symlink: a symlink whose source is
\* gone does not exist.
path_exists(path) ==
    \/ links[path].kind = "dir"
    \/ links[path].kind = "symlink" /\ exists(live[links[path].to])

\* A create_junction that does not look at the target and replaces what is there.
create_junction_unchecked(source, target, ok) ==
    /\ ok => exists(live[source])
    /\ links' = IF ok THEN [links EXCEPT ![target] = Symlink(source)] ELSE links
    /\ last' = Result("create_junction", None, {target}, IF ok THEN "True" ELSE "False",
                      IF ok THEN "" ELSE "OSError", "",
                      IF ok THEN {target} ELSE {})
    /\ UNCHANGED <<copy_target, mounts, live, store, snapshots, default_snapshot, config_file,
                   domains, domains_file, initialized, git_managers, thawed, now,
                   capturedLive>>

\* FilesystemManager.create_junction(source, target): ok is whether
\* target.symlink_to(source) goes through; it raises FileExistsError when
\* something is at the target, a symlink whose source is gone included.
create_junction(source, target, ok) ==
    /\ ok => (exists(live[source]) /\ links[target].kind = "absent")
    /\ links' = IF ok THEN [links EXCEPT ![target] = Symlink(source)] ELSE links
    /\ last' = Result("create_junction", None, {target}, IF ok THEN "True" ELSE "False",
                      IF ~exists(live[source]) THEN "SourceMissing"
                      ELSE IF path_exists(target) THEN "AlreadyExists"
                      ELSE IF ok THEN "" ELSE "OSError", "",
                      IF ok THEN {target} ELSE {})
    /\ UNCHANGED <<copy_target, mounts, live, store, snapshots, default_snapshot, config_file,
                   domains, domains_file, initialized, git_managers, thawed, now,
                   capturedLive>>

\* FilesystemManager.remove_junction(path): True at once when path.exists()
\* is false; otherwise path.unlink(), which removes a symlink and raises on
\* a directory.
remove_junction(path) ==
    /\ links' = IF path_exists(path) /\ links[path].kind = "symlink"
                THEN [links EXCEPT ![path] = NoEntry] ELSE links
    /\ last' = Result("remove_junction", None, {path},
                      IF links[path].kind = "dir" THEN "False" ELSE "True",
                      IF links[path].kind = "dir" THEN "OSError" ELSE "", "",
                      IF links' # links THEN {path} ELSE {})
    /\ UNCHANGED <<copy_target, mounts, live, store, snapshots, default_snapshot, config_file,
                   domains, domains_file, initialized, git_managers, thawed, now,
                   capturedLive>>

\* A directory is made at a link path, or what is at a link path is removed,
\* from outside the program.
make_link_dir(path) ==
    /\ links[path].kind = "absent"
    /\ links' = [links EXCEPT ![path] = DirAt]
    /\ last' = Result("mkdir", None, {path}, "None", "", "", {path})
    /\ UNCHANGED <<copy_target, mounts, live, store, snapshots, default_snapshot, config_file,
                   domains, domains_file, initialized, git_managers, thawed, now,
                   capturedLive>>

(***************************************************************************)
(* FilesystemManager.copy_with_hardlinks                                   *)
(***************************************************************************)
CopySources == {"cfg"}

\* What the applications write below the source before it is copied: a file,
\* and a directory with a file and a repository of its own.
CopyFiles ==
    {<<"cfg", <<NameA>>, <<1>>>>, <<"cfg", <<NameA>>, <<2>>>>,
     <<"cfg", <<NameB, NameA>>, <<2>>>>, <<"cfg", <<NameB, GitDirName, NameA>>, <<1>>>>}

in_git(p) == \E i \in 1..Len(p) : p[i] = GitDirName

\* A walk that leaves out the .git of the source directory only.
RECURSIVE copy_steps_top_git_only(_, _, _)
copy_steps_top_git_only(t, root, skip_git) ==
    LET files == sorted({n \in Children(t, root) : is_file(t, root \o <<n>>)})
        dirs  == sorted({n \in Children(t, root) : is_dir(t, root \o <<n>>)
                            /\ ~(skip_git /\ root = <<>> /\ n = GitDirName)})
    IN  <<root>> \o [i \in 1..Len(files) |-> root \o <<files[i]>>]
            \o Concat([i \in 1..Len(dirs) |-> copy_steps_top_git_only(t, root \o <<dirs[i]>>, skip_git)])

\* The loop over os.walk(source), top down: each directory that is visited,
\* followed by its files and then by its subdirectories, .git left out of
\* the subdirectories of every directory when skip_git is set.
RECURSIVE copy_steps(_, _, _)
copy_steps(t, root, skip_git) ==
    LET files == sorted({n \in Children(t, root) : is_file(t, root \o <<n>>)})
        dirs  == sorted({n \in Children(t, root) : is_dir(t, root \o <<n>>)
                            /\ ~(skip_git /\ n = GitDirName)})
    IN  <<root>> \o [i \in 1..Len(files) |-> root \o <<files[i]>>]
            \o Concat([i \in 1..Len(dirs) |-> copy_steps(t, root \o <<dirs[i]>>, skip_git)])

put_entry(tree, p, entry) ==
    [q \in DOMAIN tree \cup {p} |-> IF q = p THEN entry ELSE tree[q]]

\* One step of the loop on the state st of the call (the target's tree, its
\* hardlinked files, files_linked and the exception raised, if any):
\* target_root.mkdir for a directory; for a file os.link, and shutil.copy2
\* when os.link raises, which it does when link_ok is false (source and
\* target on different volumes) or the target file exists.  copy2 raises
\* SameFileError when the target file is a hardlink of the source file.
copy_step(src, st, p, link_ok) ==
    IF st.err # "" THEN st
    ELSE IF is_dir(src, p)
    THEN [st EXCEPT !.tree = IF p \in DOMAIN @ THEN @ ELSE put_entry(@, p, DirEntry)]
    ELSE IF link_ok /\ p \notin DOMAIN st.tree
    THEN [st EXCEPT !.tree = put_entry(@, p, FileEntry(src[p].bytes)),
                    !.linked = @ \cup {p},
                    !.files_linked = @ + 1]
    ELSE IF p \in st.linked
    THEN [st EXCEPT !.err = "SameFileError"]
    ELSE [st EXCEPT !.tree = put_entry(@, p, FileEntry(src[p].bytes))]

RECURSIVE copy_loop(_, _, _, _)
copy_loop(src, st, steps, link_ok) ==
    IF steps = <<>> THEN st
    ELSE copy_loop(src, copy_step(src, st, Head(steps), link_ok), Tail(steps), link_ok)

\* FilesystemManager.copy_with_hardlinks(source, target, skip_git).  The
\* files of a target are all hardlinks or all copies, as one volume or two
\* hold the source and the target.
copy_with_hardlinks(source, skip_git, link_ok) ==
    /\ link_ok => copy_target.linked = {p \in DOMAIN copy_target.tree : is_file(copy_target.tree, p)}
    /\ ~link_ok => copy_target.linked = {}
    /\ LET src == live[source]
           st0 == [tree |-> copy_target.tree, linked |-> copy_target.linked,
                   files_linked |-> 0, err |-> ""]
           st  == IF ~exists(src) THEN st0
                  ELSE copy_loop(src, st0, copy_steps(src, <<>>, skip_git), link_ok)
       IN  /\ copy_target' = [tree |-> st.tree, linked |-> st.linked]
           /\ last' = Result("copy_with_hardlinks", [source |-> source, skip_git |-> skip_git],
                             {}, IF st.err # "" THEN -1 ELSE st.files_linked, st.err, "",
                             {})
    /\ UNCHANGED <<links, mounts, live, store, snapshots, default_snapshot, config_file,
                   domains, domains_file, initialized, git_managers, thawed, now,
                   capturedLive>>

(***************************************************************************)
(* GitManager.commit_changes and get_status, called by themselves          *)
(***************************************************************************)
GitPaths == {"cfg", "user"}
GitFiles ==
    {<<"cfg", <<NameA>>, <<1>>>>, <<"cfg", <<NameA>>, <<2>>>>, <<"cfg", <<NameB, NameA>>, <<1>>>>,
     <<"cfg", <<NameTmp>>, <<1>>>>}
GitRemovals == {<<"cfg", <<NameA>>>>}
Messages == {SnapshotMessage(SnapshotNames[i]) : i \in 1..Len(SnapshotNames)}

\* GitManager.get_status() on the work tree t: clean iff no tracked file
\* differs from the index and no file is untracked.
get_status(t) ==
    IF ~is_initialized(t) THEN [initialized |-> FALSE]
    ELSE [initialized |-> TRUE,
          clean |-> git_tree(t, worktree_files(t)) = t[git_index].bytes]

\* GitManager(domain_path).commit_changes(message).
GitManager_commit_changes(d, message) ==
    /\ exists(live[d])
    /\ live' = [live EXCEPT ![d] = IF is_initialized(@) THEN commit_changes(@, message) ELSE @]
    /\ last' = Result("commit_changes", message, {d},
                      IF is_initialized(live[d]) THEN "True" ELSE "False", "", "",
                      changed_paths(live, live'))
    /\ UNCHANGED <<links, copy_target, mounts, store, snapshots, default_snapshot,
                   config_file, domains, domains_file, initialized, git_managers, thawed,
                   now, capturedLive>>

\* GitManager(domain_path).get_status().
GitManager_get_status(d) ==
    /\ exists(live[d])
    /\ last' = Result("get_status", None, {d},
                      IF ~get_status(live[d]).initialized THEN "uninitialized"
                      ELSE IF get_status(live[d]).clean THEN "clean" ELSE "dirty", "", "", {})
    /\ UNCHANGED <<links, copy_target, mounts, live, store, snapshots, default_snapshot,
                   config_file, domains, domains_file, initialized, git_managers, thawed,
                   now, capturedLive>>

(***************************************************************************)
(* restore_snapshot that does not reach its end                            *)
(***************************************************************************)
\* Where the process can end in the restore of one domain: in
\* shutil.rmtree(target), between rmtree and copytree, in shutil.copytree.
InterruptPoints == {"rmtree", "between", "copytree"}

\* A restore of a domain that copies to a staging path and renames it onto
\* the target: the target is the old tree until the rename.
interrupted_at_swap(point, old, stored) ==
    IF point = "copytree" THEN {copytree(stored)} ELSE {old}

\* What is at the target when the process ends at point: old is the target
\* before, stored the subtree of the snapshot.
interrupted_at(point, old, stored) ==
    IF point = "rmtree" THEN (IF exists(old) THEN rmtree_failed(old) ELSE {})
    ELSE IF point = "between" THEN {Absent}
    ELSE copytree_failed(stored) \ {Absent}

\* SnapshotManager.restore_snapshot, the process ending at point in the
\* restore of the domain fail: the domains before fail are restored, the
\* ones after it are not reached, and the fields of the manager are gone.
restore_snapshot_interrupted(snapshot_id, target_paths, fail, point, partial) ==
    /\ snapshot_id \in ids(snapshots)
    /\ snapshot_id \in DOMAIN store
    /\ fail \in restore_failures(get_snapshot(snapshots, snapshot_id), store[snapshot_id],
                                 target_paths)
    /\ partial \in interrupted_at(point, live[fail], store[snapshot_id][fail])
    /\ live' = restored_paths(get_snapshot(snapshots, snapshot_id), store[snapshot_id],
                              target_paths, fail, partial)
    /\ snapshots' = <<>>
    /\ default_snapshot' = None
    /\ domains' = <<>>
    /\ initialized' = FALSE
    /\ git_managers' = {}
    /\ last' = Result("crash", snapshot_id, target_paths, point, "restore_snapshot", fail,
                      changed_paths(live, live'))
    /\ now < MaxClock
    /\ now' = now + 1
    /\ UNCHANGED <<links, copy_target, mounts, store, config_file, domains_file, thawed,
                   capturedLive>>

\* The restore_snapshot that did not reach its end, if the last operation
\* was one: it raised, or its process ended.
Interrupted ==
    \/ last.op = "restore_snapshot" /\ last.ret = "raise"
    \/ last.op = "crash" /\ last.err = "restore_snapshot"

\* restore_snapshot of the same snapshot onto the same target paths, run
\* again after one that did not reach its end: by the same manager after an
\* exception, by a new manager that has loaded the records after the process
\* ended.
restore_snapshot_retry(snapshot_id, target_paths) ==
    /\ Interrupted
    /\ last.id = snapshot_id
    /\ last.targets = target_paths
    /\ IF last.op = "crash"
       THEN LET table == DomainManager_load_config(domains_file)
                loaded == load_config(config_file, snapshots, default_snapshot)
            IN  /\ domains' = table
                /\ snapshots' = loaded.snapshots
                /\ default_snapshot' = loaded.default_snapshot
                /\ git_managers' = git_managers \cup
                       {table[i].name : i \in {j \in 1..Len(table) :
                           table[j].use_git /\ is_initialized(live[table[j].name])}}
                /\ initialized' = TRUE
       ELSE UNCHANGED <<snapshots, default_snapshot, domains, initialized, git_managers>>
    /\ live' = restored_paths(get_snapshot(snapshots', snapshot_id), store[snapshot_id],
                              target_paths, "", Absent)
    /\ last' = Result("restore_snapshot_retry", snapshot_id, target_paths, "True", "", "",
                      changed_paths(live, live'))
    /\ UNCHANGED <<links, copy_target, mounts, store, config_file, domains_file, thawed, now,
                   capturedLive>>

(***************************************************************************)
(* Loss of stored data, from outside the program                           *)
(***************************************************************************)
remove_snapshot_dir(snapshot_id) ==
    /\ snapshot_id \in DOMAIN store
    /\ store' = [i \in DOMAIN store \ {snapshot_id} |-> store[i]]
    /\ last' = Result("remove_stored", snapshot_id, {}, "None", "", "", {})
    /\ UNCHANGED <<links, copy_target, mounts, live, snapshots, default_snapshot, config_file, domains, domains_file,
                   initialized, git_managers, thawed, now, capturedLive>>

remove_stored_domain(snapshot_id, d) ==
    /\ snapshot_id \in DOMAIN store
    /\ d \in DOMAIN store[snapshot_id]
    /\ store' = [store EXCEPT ![snapshot_id] = [e \in DOMAIN @ \ {d} |-> @[e]]]
    /\ last' = Result("remove_stored", snapshot_id, {}, "None", "", "", {})
    /\ UNCHANGED <<links, copy_target, mounts, live, snapshots, default_snapshot, config_file, domains, domains_file,
                   initialized, git_managers, thawed, now, capturedLive>>

(***************************************************************************)
(* Specifications                                                          *)
(***************************************************************************)
\* The names given to snapshots, and the ids asked for: those of the index
\* and one that is in no index.
Names == {SnapshotNames[1]}
KnownIds == ids(snapshots) \cup {UnknownId}

\* The applications.
Applications ==
    \/ \E w \in AppFiles : write_file(w[1], w[2], w[3])
    \/ \E w \in AppDirs : make_dir(w[1], w[2])
    \/ \E w \in AppRemovals : remove(w[1], w[2])

\* The operations of the program, none of them meeting an I/O error.
Next ==
    \/ init
    \/ load
    \/ Applications
    \/ \E name \in Names, description \in Descriptions : create_snapshot(name, description)
    \/ \E name \in Names, description \in Descriptions :
          create_snapshot_uninitialized(name, description)
    \/ \E snapshot_id \in KnownIds : set_default_snapshot(snapshot_id)
    \/ \E snapshot_id \in KnownIds, target_paths \in TargetSets :
          restore_snapshot(snapshot_id, target_paths)
    \/ \E snapshot_id \in KnownIds :
          DeepFreezeManager_restore_snapshot("restore", snapshot_id, FALSE)
    \/ DeepFreezeManager_restore_snapshot("restore_default", None, TRUE)
    \/ bootRestore
    \/ thaw
    \/ freeze

Spec == Init /\ [][Next]_vars

\* Capture on storage that can fail: a copy may raise an I/O error.
NextCaptureError ==
    \/ init
    \/ Applications
    \/ \E name \in Names, description \in Descriptions : create_snapshot(name, description)
    \/ \E name \in Names, description \in Descriptions, fail \in DomainNames :
          \E partial \in copy_partial(fail) :
              create_snapshot_failed(name, description, fail, partial)
    \/ \E snapshot_id \in KnownIds : set_default_snapshot(snapshot_id)

SpecCaptureError == Init /\ [][NextCaptureError]_vars

\* Restore on storage that can fail: a removal or a copy may raise an I/O error.
NextRestoreError ==
    \/ init
    \/ Applications
    \/ \E name \in Names, description \in Descriptions : create_snapshot(name, description)
    \/ \E snapshot_id \in KnownIds, target_paths \in TargetSets :
          restore_snapshot(snapshot_id, target_paths)
    \/ \E snapshot_id \in KnownIds, target_paths \in TargetSets, fail \in AllTargets :
          \E partial \in (IF snapshot_id \in DOMAIN store
                          THEN restore_partial(store[snapshot_id], fail) ELSE {}) :
              restore_snapshot_failed(snapshot_id, target_paths, fail, partial)

SpecRestoreError == Init /\ [][NextRestoreError]_vars

\* Capture and restore when stored snapshot data can be lost.
NextStoreLoss ==
    \/ init
    \/ Applications
    \/ \E name \in Names, description \in Descriptions : create_snapshot(name, description)
    \/ \E snapshot_id \in KnownIds, target_paths \in TargetSets :
          restore_snapshot(snapshot_id, target_paths)
    \/ \E snapshot_id \in DOMAIN store : remove_snapshot_dir(snapshot_id)
    \/ \E snapshot_id \in DOMAIN store, d \in DomainNames : remove_stored_domain(snapshot_id, d)

SpecStoreLoss == Init /\ [][NextStoreLoss]_vars

\* Restores that are repeated.
NextRepeat ==
    \/ init
    \/ Applications
    \/ \E name \in Names, description \in Descriptions : create_snapshot(name, description)
    \/ \E snapshot_id \in KnownIds, target_paths \in TargetSets :
          restore_snapshot(snapshot_id, target_paths)
    \/ \E snapshot_id \in KnownIds, target_paths \in TargetSets :
          restore_snapshot_again(snapshot_id, target_paths)

SpecRepeat == Init /\ [][NextRepeat]_vars

\* The hash computed over domain paths that applications write to.
NextHash ==
    \/ init
    \/ Applications
    \/ \E d \in DomainNames : calculate_directory_hash(d)

SpecHash == Init /\ [][NextHash]_vars

\* Processes that can end in the middle of a write of a record.
NextCrash ==
    \/ init
    \/ load
    \/ \E name \in Names, description \in Descriptions : create_snapshot(name, description)
    \/ \E snapshot_id \in KnownIds : set_default_snapshot(snapshot_id)
    \/ \E snapshot_id \in KnownIds :
          \E file \in crashed_write(config_file, save_config(snapshots, snapshot_id)) :
              set_default_snapshot_crashed(snapshot_id, file)
    \/ \E file \in crashed_write(domains_file,
                                  DomainManager_save_config(initialize_domains)) :
          init_crashed(file)

SpecCrash == Init /\ [][NextCrash]_vars

\* Managers of successive processes on one base path.
NextRestart ==
    \/ init
    \/ load
    \/ Applications
    \/ \E name \in Names, description \in Descriptions : create_snapshot(name, description)
    \/ \E name \in Names, description \in Descriptions :
          create_snapshot_uninitialized(name, description)
    \/ \E snapshot_id \in KnownIds : set_default_snapshot(snapshot_id)
    \/ thaw
    \/ freeze
    \/ restart

SpecRestart == Init /\ [][NextRestart]_vars

\* One manager, and captures made through a second one on the same base path.
NextTwoManagers ==
    \/ init
    \/ load
    \/ \E name \in Names, description \in Descriptions : create_snapshot(name, description)
    \/ \E snapshot_id \in KnownIds : set_default_snapshot(snapshot_id)
    \/ \E snapshot_id \in KnownIds, target_paths \in TargetSets :
          restore_snapshot(snapshot_id, target_paths)
    \/ thaw
    \/ freeze
    \/ \E name \in Names, description \in Descriptions : snapshot_create(name, description)

SpecTwoManagers == Init /\ [][NextTwoManagers]_vars

\* Captures on a clock that can give the same value twice.
NextCoarseClock ==
    \/ init
    \/ Applications
    \/ \E name \in Names, description \in Descriptions : create_snapshot(name, description)
    \/ \E name \in Names, description \in Descriptions \cup {""} :
          create_snapshot_same_clock(name, description)
    \/ \E snapshot_id \in KnownIds : set_default_snapshot(snapshot_id)

SpecCoarseClock == Init /\ [][NextCoarseClock]_vars

\* Domain paths that can be missing: the directory of the sys domain is
\* removed from outside the program (init makes it again).
NextMissingPath ==
    \/ init
    \/ Applications
    \/ \E d \in {"sys"} : remove(d, <<>>)
    \/ \E name \in Names, description \in Descriptions : create_snapshot(name, description)
    \/ \E snapshot_id \in KnownIds, target_paths \in TargetSets :
          restore_snapshot(snapshot_id, target_paths)
    \/ \E snapshot_id \in KnownIds :
          DeepFreezeManager_restore_snapshot("restore", snapshot_id, FALSE)

SpecMissingPath == Init /\ [][NextMissingPath]_vars

\* Captures whose commit of the cfg domain can fail.
NextCommitError ==
    \/ init
    \/ Applications
    \/ \E name \in Names, description \in Descriptions : create_snapshot(name, description)
    \/ \E name \in Names, description \in Descriptions, error \in CommitErrors :
          create_snapshot_commit_failed(name, description, error)
    \/ \E snapshot_id \in KnownIds, target_paths \in TargetSets :
          restore_snapshot(snapshot_id, target_paths)

SpecCommitError == Init /\ [][NextCommitError]_vars

\* init called more than once, through the manager and through the command.
NextReinit ==
    \/ init
    \/ cli_init
    \/ Applications
    \/ \E name \in Names, description \in Descriptions : create_snapshot(name, description)
    \/ \E snapshot_id \in KnownIds : set_default_snapshot(snapshot_id)
    \/ thaw
    \/ freeze

SpecReinit == Init /\ [][NextReinit]_vars

\* The SnapshotManager used by itself, on storage whose copies can fail.
NextStoreCapture ==
    \/ init
    \/ Applications
    \/ \E name \in Names, domain_paths \in DomainPathSets, description \in Descriptions :
          SnapshotManager_create_snapshot(name, domain_paths, description)
    \/ \E name \in Names, domain_paths \in DomainPathSets, description \in Descriptions,
          fail \in DomainNames :
          \E partial \in copy_partial(fail) :
              SnapshotManager_create_snapshot_failed(name, domain_paths, description,
                                                     fail, partial)
    \/ \E snapshot_id \in KnownIds : set_default_snapshot(snapshot_id)
    \/ \E snapshot_id \in KnownIds, target_paths \in TargetSets :
          restore_snapshot(snapshot_id, target_paths)

SpecStoreCapture == Init /\ [][NextStoreCapture]_vars

\* Snapshots of two names looked up by name, by managers of successive
\* processes.
AllNames == Range(SnapshotNames)

NextLookup ==
    \/ init
    \/ load
    \/ restart
    \/ \E name \in AllNames, description \in Descriptions : create_snapshot(name, description)
    \/ \E name \in AllNames : SnapshotManager_get_snapshot_by_name(name)
    \/ \E snapshot_id \in KnownIds : set_default_snapshot(snapshot_id)

SpecLookup == Init /\ [][NextLookup]_vars

\* Overlays mounted and unmounted at the mount points.
NextMount ==
    \/ \E mount_point \in MountPoints, supported \in BOOLEAN, ok \in BOOLEAN :
          mount_overlay(mount_point, supported, ok)
    \/ \E mount_point \in MountPoints, ok \in BOOLEAN : unmount_overlay(mount_point, ok)
    \/ \E mount_point \in MountPoints : is_mount_point(mount_point)
    \/ \E mount_point \in MountPoints : remove_mount_point(mount_point)

SpecMount == Init /\ [][NextMount]_vars

\* Junctions to the live paths of the domains, with applications that
\* write below the live paths and remove them.
NextJunction ==
    \/ init
    \/ \E f \in {a \in AppFiles : a[1] \in JunctionSources} : write_file(f[1], f[2], f[3])
    \/ \E d \in JunctionSources : remove(d, <<>>)
    \/ \E source \in JunctionSources, target \in LinkPaths, ok \in BOOLEAN :
            create_junction(source, target, ok)
    \/ \E path \in LinkPaths : remove_junction(path)
    \/ \E path \in LinkPaths : make_link_dir(path)

SpecJunction == Init /\ [][NextJunction]_vars

\* Copies of the cfg domain by hardlink; the applications write below the
\* source before the target is made.
NextCopy ==
    \/ init
    \/ /\ ~exists(copy_target.tree)
       /\ \E f \in CopyFiles : write_file(f[1], f[2], f[3])
    \/ \E source \in CopySources, skip_git \in BOOLEAN, link_ok \in BOOLEAN :
            copy_with_hardlinks(source, skip_git, link_ok)

SpecCopy == Init /\ [][NextCopy]_vars

\* The repository of the cfg domain, committed to by GitManager itself.
NextGit ==
    \/ init
    \/ \E f \in GitFiles : write_file(f[1], f[2], f[3])
    \/ \E r \in GitRemovals : remove(r[1], r[2])
    \/ \E d \in GitPaths, message \in Messages : GitManager_commit_changes(d, message)
    \/ \E d \in GitPaths : GitManager_get_status(d)

SpecGit == Init /\ [][NextGit]_vars

\* Restores that do not reach their end, by an I/O error or by the end of
\* the process, and the restore run again after them.
NextInterrupt ==
    \/ init
    \/ Applications
    \/ \E name \in Names, description \in Descriptions : create_snapshot(name, description)
    \/ \E snapshot_id \in KnownIds, target_paths \in TargetSets, fail \in AllTargets :
          \E partial \in (IF snapshot_id \in DOMAIN store
                          THEN restore_partial(store[snapshot_id], fail) ELSE {}) :
              restore_snapshot_failed(snapshot_id, target_paths, fail, partial)
    \/ \E snapshot_id \in KnownIds, target_paths \in TargetSets, fail \in AllTargets,
          point \in InterruptPoints :
          \E partial \in (IF snapshot_id \in DOMAIN store /\ fail \in DOMAIN store[snapshot_id]
                          THEN interrupted_at(point, live[fail], store[snapshot_id][fail])
                          ELSE {}) :
              restore_snapshot_interrupted(snapshot_id, target_paths, fail, point, partial)
    \/ \E snapshot_id \in KnownIds, target_paths \in TargetSets :
          restore_snapshot_retry(snapshot_id, target_paths)

SpecInterrupt == Init /\ [][NextInterrupt]_vars

\* Snapshots of two names, the default designation, restores and the flag,
\* with new processes that load the index.
NextDefault ==
    \/ init
    \/ load
    \/ restart
    \/ \E name \in AllNames, description \in Descriptions : create_snapshot(name, description)
    \/ \E snapshot_id \in KnownIds : set_default_snapshot(snapshot_id)
    \/ \E snapshot_id \in KnownIds, target_paths \in TargetSets :
          restore_snapshot(snapshot_id, target_paths)
    \/ thaw
    \/ freeze

SpecDefault == Init /\ [][NextDefault]_vars

(***************************************************************************)
(* Properties                                                              *)
(***************************************************************************)
\* The operations that restore a snapshot, and the snapshot of the last one.
RestoreOps == {"restore_snapshot", "restore", "restore_default", "bootRestore"}
Restored == last.op \in RestoreOps /\ last.ret = "True"
LastSnapshot == get_snapshot(snapshots, last.id)

\* The domains of the snapshot that the last restore was given a path for.
RestoredDomains == Range(keys(LastSnapshot.domains)) \cap last.targets

\* C1: after a successful restore of a snapshot S, whatever was written,
\* added or removed in a captured domain since S was captured, the domain's
\* live path holds exactly the entries and the file bytes it held when S was
\* captured.
C1_RestoreGivesCapturedContent ==
    Restored => \A d \in RestoredDomains : live[d] = capturedLive[last.id][d]

\* A restore of the only snapshot, captured with a file in sys, that changed
\* sys back after a write made since the capture.
C1_Witness ==
    /\ Restored
    /\ "sys" \in last.changed
    /\ is_file(capturedLive[last.id]["sys"], <<NameA>>)
    /\ now > LastSnapshot.created_at

\* C2: after a successful restore of S the hash computed over the live path
\* of every restored domain d of S is S.domains[d], the hash recorded when S
\* was captured.
C2_RoundTripFingerprint ==
    Restored =>
        \A d \in RestoredDomains :
            _calculate_directory_hash(live[d]) = recorded_hash(LastSnapshot, d)

\* A restore that changed sys back to a tree with a file below a directory,
\* whose hash is not that of an empty directory.
C2_Witness ==
    /\ Restored
    /\ last.op = "restore_snapshot"
    /\ "sys" \in last.changed
    /\ is_file(live["sys"], <<NameB, NameA>>)
    /\ recorded_hash(LastSnapshot, "sys") # sha256(<<>>)

\* C3: a create_snapshot that meets an I/O error while copying a domain
\* gives no snapshot and leaves no entry for the attempt in the index or in
\* snapshots.json; the registered snapshots and the default stay as they were.
C3_AllOrNothingCapture ==
    [][(last'.op = "create_snapshot" /\ last'.ret = "raise") =>
            /\ snapshots' = snapshots
            /\ config_file' = config_file
            /\ default_snapshot' = default_snapshot
            /\ last'.id \notin ids(snapshots')
            /\ config_file'.exists =>
                   \A i \in 1..Len(config_file'.snapshots) :
                       config_file'.snapshots[i].snapshot_id # last'.id]_vars

\* A capture that failed part way, with a snapshot registered and made the
\* default before it, and a partial copy left under snapshots/.
C3_Witness ==
    /\ last.op = "create_snapshot"
    /\ last.ret = "raise"
    /\ Len(snapshots) = 1
    /\ default_snapshot = snapshots[1].snapshot_id
    /\ last.id \in DOMAIN store

\* C4: a registered snapshot's index entry and its stored copy are changed
\* by no operation: no write to a live domain, no later create_snapshot (the
\* same name included), no restore, no set_default_snapshot, thaw or freeze.
C4_SnapshotImmutable ==
    [][\A i \in 1..Len(snapshots) :
            LET id == snapshots[i].snapshot_id
            IN  /\ id \in ids(snapshots')
                /\ get_snapshot(snapshots', id) = snapshots[i]
                /\ id \in DOMAIN store /\ id \in DOMAIN store'
                /\ store'[id] = store[id]]_vars

C6_SetDefault ==
    [][last'.op = "set_default_snapshot" =>
            IF last'.id \in ids(snapshots)
            THEN /\ last'.ret = "True"
                 /\ default_snapshot' = last'.id
                 /\ config_file'.exists
                 /\ config_file'.default_snapshot = last'.id
            ELSE /\ last'.ret = "False"
                 /\ default_snapshot' = default_snapshot
                 /\ config_file' = config_file]_vars

\* An unknown id refused while a default is set.
C6_Witness ==
    /\ last.op = "set_default_snapshot"
    /\ last.ret = "False"
    /\ last.id \notin ids(snapshots)
    /\ default_snapshot \in ids(snapshots)
    /\ config_file.default_snapshot = default_snapshot

\* C7: on an initialized manager, restore_snapshot(use_default=True) with no
\* default set fails as "no default set" and changes no domain; with a
\* default set it puts the stored copy of the default on the live path of
\* every overlay domain, and restore_snapshot(id) does so for the given id.
C7_ManagerRestore ==
    (initialized /\ last.op \in {"restore", "restore_default"}) =>
        LET id == IF last.op = "restore_default" THEN default_snapshot ELSE last.id
        IN  IF last.op = "restore_default" /\ default_snapshot = None
            THEN last.ret = "False" /\ last.err = "NoDefaultSet" /\ last.changed = {}
            ELSE id \in ids(snapshots) =>
                    /\ last.ret = "True"
                    /\ last.id = id
                    /\ \A d \in Range(overlay_domains(domains)) :
                           d \in DOMAIN store[id] => live[d] = store[id][d]

\* A restore of the default that changed the sys domain back.
C7_Witness ==
    /\ last.op = "restore_default"
    /\ last.ret = "True"
    /\ last.id = default_snapshot
    /\ "sys" \in last.changed

\* C8: restore_snapshot of an id that is not in the index, or whose
\* directory snapshots/<id> is missing, returns False and leaves everything
\* under every target path as it was.
C8_RestoreNotFound ==
    (last.op = "restore_snapshot"
        /\ (last.id \notin ids(snapshots) \/ last.id \notin DOMAIN store)) =>
            last.ret = "False" /\ last.changed = {}

\* A restore refused because snapshots/<id> is gone, of an indexed snapshot
\* whose sys domain differs from what is live.
C8_Witness ==
    /\ last.op = "restore_snapshot"
    /\ last.id \in ids(snapshots)
    /\ last.id \notin DOMAIN store
    /\ "sys" \in last.targets
    /\ live["sys"] # capturedLive[last.id]["sys"]

\* C9: restore_snapshot does not return True when a domain that is in the
\* snapshot's domains and in target_paths has no stored subtree
\* snapshots/<id>/<domain>.
C9_MissingSubtreeIsReported ==
    (/\ last.op = "restore_snapshot"
     /\ last.id \in ids(snapshots)
     /\ last.id \in DOMAIN store
     /\ \E d \in RestoredDomains : d \notin DOMAIN store[last.id]) =>
        last.ret # "True"

\* C10: an I/O error while restoring one domain does not stop the restore
\* of the others: after a restore_snapshot in which the domain a failed,
\* every other domain of the snapshot that was given a path is restored.
C10_OtherDomainsStillRestored ==
    (last.op = "restore_snapshot" /\ last.failed # "") =>
        \A b \in RestoredDomains \ {last.failed} :
            b \in DOMAIN store[last.id] => live[b] = store[last.id][b]

\* C11: a restore_snapshot repeated right after a successful one of the same
\* snapshot, with no write in between, returns True again and leaves every
\* restored domain with the content and the hash it had after the first.
C11_RestoreIdempotent ==
    last.op = "restore_snapshot_again" =>
        /\ last.ret = "True"
        /\ last.changed = {}
        /\ \A d \in RestoredDomains :
               /\ live[d] = store[last.id][d]
               /\ _calculate_directory_hash(live[d]) = recorded_hash(LastSnapshot, d)

\* A second restore in a row of a snapshot that holds a file in sys, made
\* after a write that followed the capture.
C11_Witness ==
    /\ last.op = "restore_snapshot_again"
    /\ last.ret = "True"
    /\ "sys" \in last.targets
    /\ Children(live["sys"], <<>>) # {}
    /\ now > LastSnapshot.created_at

\* The files of a tree with their bytes, by relative path and by file name.
FilesByPath(t) == {<<p, t[p].bytes>> : p \in {q \in DOMAIN t : is_file(t, q)}}
FilesByName(t) == {<<p[Len(p)], t[p].bytes>> : p \in {q \in DOMAIN t : is_file(t, q)}}

C13_HashCoversRelativePath ==
    \A d1, d2 \in DomainNames :
        (/\ exists(live[d1]) /\ exists(live[d2])
         /\ FilesByName(live[d1]) = FilesByName(live[d2])
         /\ FilesByPath(live[d1]) # FilesByPath(live[d2])) =>
            _calculate_directory_hash(live[d1]) # _calculate_directory_hash(live[d2])

\* C14: when the process ends during a write of domains.json or of
\* snapshots.json, the file holds the complete old record or the complete
\* new one.
C14_CrashLeavesOldOrNew ==
    [][last'.op = "crash" =>
            /\ \/ config_file' = config_file
               \/ config_file' = save_config(snapshots, last'.id)
            /\ \/ domains_file' = domains_file
               \/ domains_file' = DomainManager_save_config(initialize_domains)]_vars

\* C15: when create_snapshot has returned a snapshot or set_default_snapshot
\* has returned True, a new SnapshotManager that loads snapshots.json holds
\* the snapshots, with the same fields, and the default that the manager
\* holds in memory.
C15_IndexPersistedBeforeReturn ==
    (\/ last.op = "create_snapshot" /\ last.ret = "Snapshot"
     \/ last.op = "set_default_snapshot" /\ last.ret = "True") =>
        load_config(config_file, <<>>, None) =
            [snapshots |-> snapshots, default_snapshot |-> default_snapshot]

\* A default set in a manager that holds two snapshots, the index on disk
\* holding both.
C15_Witness ==
    /\ last.op = "set_default_snapshot"
    /\ last.ret = "True"
    /\ Len(snapshots) = 2
    /\ default_snapshot = snapshots[2].snapshot_id
    /\ Len(config_file.snapshots) = 2

\* C16: a snapshot that create_snapshot has returned is listed by a newly
\* loaded manager after whatever calls came later, those made through
\* another manager that loaded its index before the snapshot was created
\* included.
C16_SnapshotPersists ==
    \A id \in DOMAIN capturedLive :
        id \in ids(load_config(config_file, <<>>, None).snapshots)

\* C17: every create_snapshot that returns a snapshot adds exactly one entry
\* to the index, under an id no entry had before, whatever the name, the
\* name of an earlier snapshot included.
C17_CaptureAddsOneEntry ==
    [][(last'.op = "create_snapshot" /\ last'.ret = "Snapshot") =>
            /\ Len(snapshots') = Len(snapshots) + 1
            /\ last'.id \notin ids(snapshots)
            /\ last'.id \in ids(snapshots')]_vars

\* C18: is_thawed() is false on a new base path and stays so until thaw();
\* thaw() makes it true and freeze() makes it false, whatever it was and
\* however many times either was called before; both return True; no other
\* operation changes it.
C18_FreezeFlagToggles ==
    /\ ~is_thawed
    /\ [][/\ last'.op = "thaw" => (is_thawed' /\ last'.ret = "True")
          /\ last'.op = "freeze" => (~is_thawed' /\ last'.ret = "True")
          /\ last'.op \notin {"thaw", "freeze"} => (is_thawed' = is_thawed)]_vars

\* A freeze on an initialized manager that holds a snapshot, the flag false
\* after it.
C18_Witness ==
    /\ last.op = "freeze"
    /\ last.ret = "True"
    /\ ~is_thawed
    /\ initialized
    /\ Len(snapshots) >= 1

\* C19: a manager made in a new process on the same base path, before and
\* after its init or load, gets from is_thawed() the value the flag had
\* when the last thaw() or freeze() of any manager returned.
C19_FlagSharedAcrossManagers ==
    [][last'.op \in {"new", "init", "load"} => (is_thawed' = is_thawed)]_vars

\* A new manager on a base path that was initialized and thawed by the
\* process before.
C19_Witness ==
    /\ last.op = "new"
    /\ ~initialized
    /\ domains_file.exists
    /\ is_thawed

\* C20: create_snapshot on a manager that is not initialized returns None,
\* puts nothing in the index or in snapshots.json, writes nothing under
\* snapshots/ and commits nothing in the cfg domain.
C20_CreateNeedsInitialized ==
    [][(last'.op = "create_snapshot" /\ ~initialized) =>
            /\ last'.ret = "None"
            /\ snapshots' = snapshots
            /\ config_file' = config_file
            /\ store' = store
            /\ live' = live]_vars

\* A create_snapshot refused on a new manager whose base path holds a
\* snapshot index and a cfg repository with a change that is not committed.
C20_Witness ==
    /\ last.op = "create_snapshot"
    /\ last.ret = "None"
    /\ ~initialized
    /\ config_file.exists
    /\ Len(config_file.snapshots) >= 1
    /\ is_initialized(live["cfg"])
    /\ git_tree(live["cfg"], worktree_files(live["cfg"])) # live["cfg"][git_index].bytes

\* The overlay domains of the table whose path exists.
FrozenPresent == {d \in DomainNames : get_domain(domains, d) # None
                                       /\ get_domain(domains, d).use_overlay
                                       /\ exists(live[d])}

\* C21: the domains of a snapshot made by DeepFreezeManager.create_snapshot,
\* in its index entry and under snapshots/<id>, are the domains with
\* use_overlay whose path exists when it is captured, none of them user or
\* cache; no restore changes the live path of user or cache.
C21_CapturesOverlayDomainsOnly ==
    [][/\ (last'.op = "create_snapshot" /\ last'.ret = "Snapshot") =>
              /\ Range(keys(get_snapshot(snapshots', last'.id).domains)) = FrozenPresent
              /\ DOMAIN store'[last'.id] = FrozenPresent
              /\ FrozenPresent \subseteq {"sys", "cfg"}
       /\ last'.op \in RestoreOps =>
              /\ live'["user"] = live["user"]
              /\ live'["cache"] = live["cache"]]_vars

\* A capture made while the directory of sys is missing and user holds a
\* file: the snapshot holds cfg alone.
C21_Witness ==
    /\ last.op = "create_snapshot"
    /\ last.ret = "Snapshot"
    /\ keys(LastSnapshot.domains) = <<"cfg">>
    /\ ~exists(live["sys"])
    /\ is_file(live["user"], <<NameA>>)

\* C22: when the commit that create_snapshot makes for the cfg domain fails,
\* create_snapshot returns the snapshot all the same, the snapshot is in the
\* index in memory and in snapshots.json, and its copy under snapshots/ holds
\* the domains as they were captured.
C22_CommitFailureKeepsSnapshot ==
    [][(last'.op = "create_snapshot" /\ last'.err \in CommitErrors) =>
            /\ last'.ret = "Snapshot"
            /\ last'.id \in ids(snapshots')
            /\ last'.id \in ids(load_config(config_file', <<>>, None).snapshots)
            /\ last'.id \in DOMAIN store'
            /\ \A d \in DOMAIN store'[last'.id] : store'[last'.id][d] = live[d]]_vars

\* What a first init gives its caller, and what counts as success.
FirstInitResult == "True"
InitSuccess == {"True", "AlreadyInitialized"}

\* C23: init on a base path that is initialized already (domains.json
\* exists) succeeds, leaves the domain record, the snapshot index, the
\* default, the freeze flag and every domain path with the cfg repository as
\* they were, and gives its caller a result that is not the result of a
\* first init.
C23_InitReentrant ==
    [][(last'.op \in {"init", "cli_init"} /\ domains_file.exists) =>
            /\ last'.ret \in InitSuccess
            /\ domains_file' = domains_file
            /\ config_file' = config_file
            /\ initialized => (domains' = domains /\ snapshots' = snapshots
                               /\ default_snapshot' = default_snapshot)
            /\ thawed' = thawed
            /\ live' = live
            /\ last'.ret # FirstInitResult]_vars

\* C24: create_snapshot returns a snapshot when the path of an overlay
\* domain is missing, and the snapshot holds no entry and no stored copy for
\* that domain; a restore_snapshot leaves the live path of every domain that
\* is not in the snapshot as it is, also when the path was made again and
\* written to after the capture.
C24_MissingPathLeftOut ==
    [][/\ last'.op = "create_snapshot" =>
              \A d \in Range(overlay_domains(domains)) :
                  ~exists(live[d]) =>
                      /\ last'.ret = "Snapshot"
                      /\ d \notin Range(keys(get_snapshot(snapshots', last'.id).domains))
                      /\ d \notin DOMAIN store'[last'.id]
       /\ (last'.op \in RestoreOps /\ last'.id \in ids(snapshots)) =>
              \A d \in DomainNames :
                  d \notin Range(keys(get_snapshot(snapshots, last'.id).domains)) =>
                      live'[d] = live[d]]_vars

\* A restore onto sys and cfg of a snapshot captured while the directory of
\* sys was missing; sys was made again since and holds a file.
C24_Witness ==
    /\ Restored
    /\ "sys" \in last.targets
    /\ "sys" \notin Range(keys(LastSnapshot.domains))
    /\ ~exists(capturedLive[last.id]["sys"])
    /\ is_file(live["sys"], <<NameA>>)

\* C25: a restore changes the live path of no domain but those that are in
\* the snapshot's domains and in target_paths (none when it fails), and it
\* leaves the index, snapshots.json, the stored copies, the default and the
\* freeze flag as they were.
C25_RestoreFrame ==
    [][last'.op \in RestoreOps =>
            LET touched == IF last'.ret = "True"
                           THEN Range(keys(get_snapshot(snapshots, last'.id).domains))
                                    \cap last'.targets
                           ELSE {}
            IN  /\ \A d \in DomainNames \ touched : live'[d] = live[d]
                /\ snapshots' = snapshots
                /\ config_file' = config_file
                /\ store' = store
                /\ default_snapshot' = default_snapshot
                /\ thawed' = thawed]_vars

\* A restore onto cfg and user of the default snapshot of a thawed system
\* that changed cfg and left sys, which is in the snapshot and differs from
\* its captured state, as it was.
C25_Witness ==
    /\ Restored
    /\ last.targets = {"cfg", "user"}
    /\ last.changed = {"cfg"}
    /\ "sys" \in Range(keys(LastSnapshot.domains))
    /\ live["sys"] # capturedLive[last.id]["sys"]
    /\ default_snapshot = last.id
    /\ thawed

\* The operations of the SnapshotManager.
SnapshotManagerOps == {"SnapshotManager.create_snapshot", "set_default_snapshot",
                       "restore_snapshot"}

\* C26: SnapshotManager.create_snapshot, whether it returns a snapshot or
\* raises, leaves every entry and every file's bytes of every domain's live
\* path as they were; of the operations of the SnapshotManager only
\* restore_snapshot changes a live path.
C26_CaptureLeavesLivePaths ==
    [][/\ last'.op = "SnapshotManager.create_snapshot" => live' = live
       /\ (last'.op \in SnapshotManagerOps /\ live' # live) =>
              last'.op = "restore_snapshot"]_vars

\* A capture that raised part way through sys, which holds a file below a
\* directory, after a capture that succeeded.
C26_Witness ==
    /\ last.op = "SnapshotManager.create_snapshot"
    /\ last.ret = "raise"
    /\ last.failed = "sys"
    /\ is_file(live["sys"], <<NameB, NameA>>)
    /\ last.id \in DOMAIN store
    /\ Len(snapshots) >= 1

\* The positions in an index of the snapshots of a name.
Named(snaps, name) == {i \in 1..Len(snaps) : snaps[i].name = name}

\* C27: get_snapshot_by_name(name) returns None when no snapshot of the
\* index has that name, and otherwise the snapshot of that name that was
\* registered first, which is the one captured earliest and the one a
\* manager that loads snapshots.json finds; it changes nothing.
C27_FirstMatchByName ==
    [][last'.op = "get_snapshot_by_name" =>
            /\ UNCHANGED <<links, copy_target, mounts, live, store, snapshots, default_snapshot, config_file,
                           domains, domains_file, initialized, git_managers, thawed>>
            /\ \A name \in last'.targets :
                   IF Named(snapshots, name) = {}
                   THEN last'.ret = "None"
                   ELSE /\ last'.ret = "Snapshot"
                        /\ \E i \in Named(snapshots, name) :
                               /\ snapshots[i].snapshot_id = last'.id
                               /\ \A j \in Named(snapshots, name) :
                                      /\ i <= j
                                      /\ snapshots[i].created_at <= snapshots[j].created_at
                        /\ LET loaded == load_config(config_file, <<>>, None).snapshots
                           IN  get_snapshot_by_name(loaded, name).snapshot_id = last'.id]_vars

\* A lookup of a name that two snapshots have, a snapshot of another name
\* captured before them.
C27_Witness ==
    /\ last.op = "get_snapshot_by_name"
    /\ last.ret = "Snapshot"
    /\ Len(snapshots) = 3
    /\ snapshots[1].name # snapshots[2].name
    /\ snapshots[2].name = snapshots[3].name
    /\ last.id = snapshots[2].snapshot_id

\* C28: a load by a manager whose base path holds the domains.json written
\* by init returns True and leaves it initialized with the four domains
\* that initialize_domains built, each with the same name, type, path,
\* reset policy, use_git and use_overlay; a load on a base path without
\* domains.json returns False and leaves the manager as it was, a new one
\* not initialized and without domains.
C28_DomainRecordRoundTrip ==
    [][last'.op = "load" =>
            IF domains_file.exists
            THEN /\ last'.ret = "True"
                 /\ initialized'
                 /\ Len(domains') = 4
                 /\ \A i \in 1..4 :
                        /\ domains'[i].name = initialize_domains[i].name
                        /\ domains'[i].domain_type = initialize_domains[i].domain_type
                        /\ domains'[i].path = initialize_domains[i].path
                        /\ domains'[i].reset_policy = initialize_domains[i].reset_policy
                        /\ domains'[i].use_git = initialize_domains[i].use_git
                        /\ domains'[i].use_overlay = initialize_domains[i].use_overlay
            ELSE /\ last'.ret = "False"
                 /\ initialized' = initialized
                 /\ domains' = domains
                 /\ ~initialized /\ domains = <<>>]_vars

\* A load that gave a manager its four domains, on a base path that holds a
\* snapshot index.
C28_Witness ==
    /\ last.op = "load"
    /\ last.ret = "True"
    /\ initialized
    /\ Len(domains) = 4
    /\ domains[2].path = BasePath \o <<"domains", "cfg">>
    /\ domains_file.domains[2].path = <<"deepfreeze", Sep, "domains", Sep, "cfg">>
    /\ Len(snapshots) >= 1

\* The policy table: reset policy, versioned, overlay of each domain type.
PolicyTable ==
    [SYS   |-> <<"DISCARD", FALSE, TRUE>>,
     CFG   |-> <<"OPTIONAL_COMMIT", TRUE, TRUE>>,
     USER  |-> <<"PERSISTENT", FALSE, FALSE>>,
     CACHE |-> <<"ALWAYS_RESET", FALSE, FALSE>>]

\* C29: after init has called initialize_domains the table holds four
\* domains, one of each type, each with the reset policy, use_git and
\* use_overlay of the policy table; no two of them have the same path, and
\* the path of none lies below the path of another.
C29_DefaultDomains ==
    (last.op = "init" /\ last.ret = "True") =>
        /\ Len(domains) = 4
        /\ \A t \in DOMAIN PolicyTable :
               \E i \in 1..Len(domains) :
                   /\ domains[i].domain_type = DomainType[t]
                   /\ \A j \in 1..Len(domains) : domains[j].domain_type = DomainType[t] => j = i
                   /\ domains[i].reset_policy.name = PolicyTable[t][1]
                   /\ domains[i].use_git = PolicyTable[t][2]
                   /\ domains[i].use_overlay = PolicyTable[t][3]
        /\ \A i, j \in 1..Len(domains) :
               i # j => (domains[i].path # domains[j].path
                         /\ ~IsPrefix(domains[i].path, domains[j].path))

\* An init that made the four domain directories and left the table in the
\* manager and in domains.json.
C29_Witness ==
    /\ last.op = "init"
    /\ last.ret = "True"
    /\ Len(domains) = 4
    /\ \A i \in 1..4 : exists(live[domains[i].name])
    /\ domains_file = DomainManager_save_config(domains)
    /\ last.changed = DomainNames

\* C30: unmount_overlay returns True whenever nothing is mounted at the
\* mount point, whether the directory of the mount point exists or not, so
\* also when it is called again right after an unmount that succeeded.
C30_UnmountIdempotent ==
    [][last'.op = "unmount_overlay" =>
            \A mount_point \in last'.targets :
                ~mounts[mount_point].mounted => last'.ret = "True"]_vars

\* C31: a create_junction whose source does not exist or whose target exists
\* already returns False and leaves the link paths and the live paths as they
\* were; a remove_junction of the target that follows a create_junction that
\* returned True returns True, leaves nothing at the target and leaves the
\* live paths as they were; a remove_junction of a path that does not exist
\* returns True and changes nothing.
C31_JunctionContract ==
    [][/\ last'.op = "create_junction" =>
            \A target \in last'.targets :
                (links[target].kind # "absent" \/ last'.err = "SourceMissing") =>
                    last'.ret = "False" /\ links' = links /\ live' = live
       /\ (last.op = "create_junction" /\ last.ret = "True"
             /\ last'.op = "remove_junction" /\ last'.targets = last.targets) =>
                /\ last'.ret = "True"
                /\ \A target \in last'.targets : links'[target].kind = "absent"
                /\ live' = live
                /\ \A target \in last.targets : exists(live'[links[target].to])
       /\ last'.op = "remove_junction" =>
            \A path \in last'.targets :
                (links[path].kind = "absent"
                    \/ (links[path].kind = "symlink" /\ ~exists(live[links[path].to]))) =>
                    last'.ret = "True" /\ links' = links /\ live' = live]_vars

\* A symlink to a live path that holds a file was made and has been removed
\* again; the file is where it was.
C31_Witness ==
    /\ last.op = "remove_junction"
    /\ last.ret = "True"
    /\ last.changed = last.targets
    /\ \A path \in last.targets : links[path].kind = "absent"
    /\ is_file(live["sys"], <<NameA>>)

\* The regular files of a tree that are not inside a .git directory.
FilesOutsideGit(t) == {p \in DOMAIN t : is_file(t, p) /\ ~in_git(p)}

C33_CopyAlwaysSucceeds ==
    [][last'.op = "copy_with_hardlinks" =>
            /\ last'.err = ""
            /\ \A p \in {q \in DOMAIN live[last'.id.source] :
                            is_file(live[last'.id.source], q)
                            /\ ~(last'.id.skip_git /\ in_git(q))} :
                    /\ is_file(copy_target'.tree, p)
                    /\ copy_target'.tree[p].bytes = live[last'.id.source][p].bytes]_vars

\* The history of the repository in the work tree t, and whether the work
\* tree holds files that are new, modified or gone since the head commit.
History(t) == t[git_log].bytes
Dirty(t) == git_tree(t, worktree_files(t)) # t[git_index].bytes

C35_RestoreNotAtomic ==
    (last.op = "crash" /\ last.err = "restore_snapshot" /\ last.ret = "between") =>
        /\ ~exists(live[last.failed])
        /\ exists(store[last.id][last.failed])

\* The process ended between the two steps of the restore of sys, which held
\* a file when the snapshot was captured and held one before the restore.
C35_Witness ==
    /\ last.op = "crash"
    /\ last.err = "restore_snapshot"
    /\ last.ret = "between"
    /\ last.failed = "sys"
    /\ "sys" \in last.changed
    /\ is_file(store[last.id]["sys"], <<NameA>>)
    /\ live["sys"] = Absent

\* C36: a restore_snapshot of S run again after one that did not reach its
\* end, wherever it stopped, returns True and leaves every restored domain
\* with the content it had when S was captured.
C36_RetryRecovers ==
    last.op = "restore_snapshot_retry" =>
        /\ last.ret = "True"
        /\ \A d \in RestoredDomains : live[d] = capturedLive[last.id][d]

\* A retry that brought sys back to the captured content, a file included,
\* from what the interrupted restore had left.
C36_Witness ==
    /\ last.op = "restore_snapshot_retry"
    /\ last.ret = "True"
    /\ "sys" \in last.changed
    /\ is_file(live["sys"], <<NameA>>)
    /\ live["sys"] = capturedLive[last.id]["sys"]

\* C37: in every state the default designation of the manager is unset or
\* the id of a snapshot of its index, and so is the one that snapshots.json
\* gives to a manager that loads it.
C37_DefaultIsIndexed ==
    /\ default_snapshot = None \/ default_snapshot \in ids(snapshots)
    /\ (config_file.exists /\ ~is_truncated(config_file)) =>
            LET loaded == load_config(config_file, <<>>, None)
            IN  loaded.default_snapshot = None
                    \/ loaded.default_snapshot \in ids(loaded.snapshots)

\* A new process has loaded an index of two snapshots with a default set.
C37_Witness ==
    /\ last.op = "load"
    /\ last.ret = "True"
    /\ Len(snapshots) = Len(SnapshotNames)
    /\ default_snapshot # None
    /\ default_snapshot \in ids(snapshots)

\* C38: in every state each snapshot of the index has its directory under
\* snapshots/, with a subdirectory for every domain the snapshot records, and
\* a restore_snapshot reports NotFound only for an id that is not in the index.
C38_IndexedSnapshotsAreStored ==
    /\ \A i \in 1..Len(snapshots) :
            /\ snapshots[i].snapshot_id \in DOMAIN store
            /\ \A d \in Range(keys(snapshots[i].domains)) :
                    /\ d \in DOMAIN store[snapshots[i].snapshot_id]
                    /\ is_dir(store[snapshots[i].snapshot_id][d], <<>>)
    /\ (last.op = "restore_snapshot" /\ last.ret = "False") => last.id \notin ids(snapshots)

\* A snapshot captured while sys was empty was restored, after a write to sys.
C38_Witness ==
    /\ last.op = "restore_snapshot"
    /\ last.ret = "True"
    /\ "sys" \in last.changed
    /\ "sys" \in Range(keys(LastSnapshot.domains))
    /\ store[last.id]["sys"] = EmptyDir

\* C39: the copy of cfg that create_snapshot stores holds the history cfg
\* had before the call, without the commit the call makes afterwards, and a
\* restore of the snapshot onto cfg leaves cfg with that history.
C39_CopyBeforeCommit ==
    [][/\ (/\ last'.op = "create_snapshot"
           /\ last'.ret = "Snapshot"
           /\ "cfg" \in Range(keys(get_snapshot(snapshots', last'.id).domains))
           /\ is_initialized(live["cfg"])) =>
                /\ History(store'[last'.id]["cfg"]) = History(live["cfg"])
                /\ live'["cfg"] # live["cfg"] =>
                        /\ History(live'["cfg"]) # History(store'[last'.id]["cfg"])
                        /\ \E message \in Messages :
                                History(live'["cfg"]) = History(live["cfg"]) \o message
       /\ (/\ last'.op \in RestoreOps
           /\ last'.ret = "True"
           /\ "cfg" \in last'.targets
           /\ "cfg" \in Range(keys(get_snapshot(snapshots', last'.id).domains))
           /\ is_initialized(capturedLive[last'.id]["cfg"])) =>
                History(live'["cfg"]) = History(capturedLive[last'.id]["cfg"])]_vars

\* A snapshot captured with a file in cfg that was not committed yet was
\* restored: cfg is back at the history without the snapshot's commit.
C39_Witness ==
    /\ Restored
    /\ "cfg" \in last.changed
    /\ is_file(live["cfg"], <<NameA>>)
    /\ History(live["cfg"]) = InitialCommitMessage
    /\ History(live["cfg"]) = History(store[last.id]["cfg"])

====
